---- MODULE Spec2Model ----
(***************************************************************************)
(* Model of the jumpgen run lifecycle (generator.ts), the generator        *)
(* context (context.ts) and the watch registry (watcher.ts).               *)
(*                                                                         *)
(* One engine in watch mode.  JavaScript's scheduling is modelled by a     *)
(* microtask queue: promise continuations and the resumption of `run`      *)
(* after `await Promise.resolve()` are microtasks, and every other step    *)
(* (filesystem notifications, calls made by the embedding program, the     *)
(* settling of an asynchronous body) is a macrotask that runs only when    *)
(* the microtask queue is empty.                                           *)
(***************************************************************************)
EXTENDS Integers, Sequences, FiniteSets, TLC

\* ------------------------------------------------------------------------
\* Bounds
\* ------------------------------------------------------------------------
MaxRuns == 3          \* invocations of run() per behaviour
MaxMatchers == 3      \* matchers held by one registry
MaxLen == 2           \* length of a file's contents and of written data
MaxWrites == 3        \* 'write' events counted per behaviour
MaxWaits == 2         \* calls of waitForStart per behaviour
MaxCalls == 1         \* rerun() or destroy() calls counted per child
MaxStarts == 2        \* 'start' events per composed engine
MaxMissing == 1       \* directories of cwd that do not exist (fs.findUp)
MaxAdds == 1          \* files created after a call of fs.findUp
MaxPatterns == 4      \* patterns added to the registry on its own
MaxRegCalls == 4      \* addFile, unwatch and exists calls on that registry

\* ------------------------------------------------------------------------
\* Universe
\* ------------------------------------------------------------------------
Files == {"a", "b", "c"}              \* absolute paths below root
FileOrder == <<"a", "b", "c">>
StoreKeys == {"seed"}
WatchOption == <<"b">>                \* options.watch of the engine
InitialDisk == [f \in Files |-> IF f = "a" THEN "full" ELSE "none"]

\* What may exist at each path: a regular file (empty or not) or a directory.
DiskStates(f) ==
    CASE f = "a" -> {"full"}
      [] f = "b" -> {"none", "empty", "full"}
      [] OTHER   -> {"none", "full", "dir"}

\* A path may also be spelled relative to root: "./a" for "a".  The working
\* directory of the process is root.

\* path.relative(root, p)
relative(p) ==
    CASE p = "a" -> "./a"
      [] p = "b" -> "./b"
      [] p = "c" -> "./c"
      [] OTHER   -> p

\* path.resolve(root, p)
resolve(p) ==
    CASE p = "./a" -> "a"
      [] p = "./b" -> "b"
      [] p = "./c" -> "c"
      [] OTHER    -> p

Root == "/"
RootDepth == 1                        \* root.split(sep).length
Star == [kind |-> "children", base |-> Root]       \* "*", scanned by the body
Literal(f) == [kind |-> "literal", base |-> f]     \* a path without a glob
DirGlob(f) == [kind |-> "globstar", base |-> f]    \* path.join(f, "**/*")
ListGlob == [kind |-> "some", base |-> Root]       \* "[ab]", listed by the body

\* ------------------------------------------------------------------------
\* Sequence helpers (insertion-ordered Set / Map of JavaScript)
\* ------------------------------------------------------------------------
Range(s) == {s[i] : i \in 1..Len(s)}

InSeq(x, s) == \E i \in 1..Len(s) : s[i] = x

\* Set.prototype.add: append unless present.
SetAdd(s, x) == IF InSeq(x, s) THEN s ELSE Append(s, x)

\* Set.prototype.delete.
SetDelete(s, x) == SelectSeq(s, LAMBDA y : y # x)

RECURSIVE SetAddAll(_, _)
SetAddAll(s, xs) ==
    IF xs = <<>> THEN s ELSE SetAddAll(SetAdd(s, Head(xs)), Tail(xs))

\* ------------------------------------------------------------------------
\* Patterns: "*" lists the children of root; an entry of the `watch` option
\* that is not an existing file is registered as a literal path or, for a
\* directory, as the globstar pattern below it.
\* ------------------------------------------------------------------------
PatternBase(pat) == pat.base

PatternDepth(pat) == IF pat.base = Root THEN RootDepth ELSE RootDepth + 1

PatternMatch(pat, file) ==
    CASE pat.kind = "children" -> file \in Files
      [] pat.kind = "literal"  -> file = pat.base
      [] pat.kind = "some"     -> file \in {"a", "b"}
      [] OTHER                 -> FALSE

\* picomatch.scan(pattern).isGlobstar
isGlobstar(pat) == pat.kind = "globstar"

\* hasMatch: matcher.match(file) || file === matcher.base
hasMatch(file, matcher) ==
    PatternMatch(matcher.pat, file) \/ file = PatternBase(matcher.pat)

\* ------------------------------------------------------------------------
\* Watch registry
\* ------------------------------------------------------------------------
NoEntry == [has |-> FALSE, causes |-> <<>>]

createJumpgenWatcher ==
    [ watchedFiles  |-> {},
      blamedFiles   |-> [f \in Files |-> NoEntry],
      criticalFiles |-> {},
      matchers      |-> <<>>,
      chokidar      |-> {},       \* paths added to recursiveWatcher
      closed        |-> FALSE ]

\* watch(file): recursiveWatcher.add(file) / childrenWatcher.add(base).
\* The children watcher is represented by the matcher list itself.
watch(reg, file, childrenOnly) ==
    IF childrenOnly THEN reg
    ELSE [reg EXCEPT !.chokidar = @ \cup {file}]

\* Variant of findIndex: the first matcher that is not deeper.
RECURSIVE findIndexNotDeeper(_, _, _)
findIndexNotDeeper(ms, depth, i) ==
    IF i > Len(ms) THEN Len(ms) + 1
    ELSE IF depth >= ms[i].depth THEN i
    ELSE findIndexNotDeeper(ms, depth, i + 1)

\* matchers.findIndex(m => depth > m.depth), or matchers.length.
RECURSIVE findIndex(_, _, _)
findIndex(ms, depth, i) ==
    IF i > Len(ms) THEN Len(ms) + 1
    ELSE IF depth > ms[i].depth THEN i
    ELSE findIndex(ms, depth, i + 1)

splice(ms, index, m) ==
    SubSeq(ms, 1, index - 1) \o <<m>> \o SubSeq(ms, index, Len(ms))

\* add(patterns, options) for one positive pattern.
add(reg, pat, ignoreEmptyNewFiles, enableChangeEvents) ==
    LET depth == PatternDepth(pat)
        index == findIndex(reg.matchers, depth, 1)
        m == [ pat |-> pat,
               depth |-> depth,
               ignoreEmptyNewFiles |-> ignoreEmptyNewFiles,
               ignoreChangeEvents |-> ~enableChangeEvents ]
    IN  watch([reg EXCEPT !.matchers = splice(@, index, m)],
              PatternBase(pat), ~isGlobstar(pat))

\* Variant of addFile: a file that was already watched without a cause is
\* not made a cause for itself.
addFileNoSeed(reg, file, hasCause, causeList, critical) ==
    LET old == reg.blamedFiles[file]
        causes ==
            IF hasCause
            THEN SetAddAll(IF old.has THEN old.causes ELSE <<>>, causeList)
            ELSE IF old.has THEN SetAdd(old.causes, file) ELSE <<>>
        r1 == [reg EXCEPT
                 !.blamedFiles[file] = [has |-> hasCause \/ old.has,
                                        causes |-> causes],
                 !.criticalFiles = IF critical THEN @ \cup {file} ELSE @,
                 !.watchedFiles = @ \cup {file}]
    IN  watch(r1, file, FALSE)

\* addFile(file, {cause, critical}); hasCause is the truthiness of
\* options.cause and causeList its elements.
addFile(reg, file, hasCause, causeList, critical) ==
    LET old == reg.blamedFiles[file]
        created == IF file \in reg.watchedFiles THEN <<file>> ELSE <<>>
        causes ==
            IF hasCause
            THEN SetAddAll(IF old.has THEN old.causes ELSE created, causeList)
            ELSE IF old.has THEN SetAdd(old.causes, file) ELSE <<>>
        r1 == [reg EXCEPT
                 !.blamedFiles[file] = [has |-> hasCause \/ old.has,
                                        causes |-> causes],
                 !.criticalFiles = IF critical THEN @ \cup {file} ELSE @,
                 !.watchedFiles = @ \cup {file}]
    IN  watch(r1, file, FALSE)

\* The condition guarding recursiveWatcher.unwatch(file) in unwatch().
NoMatcherWantsChanges(reg, file) ==
    \A i \in 1..Len(reg.matchers) :
        reg.matchers[i].ignoreChangeEvents \/ ~hasMatch(file, reg.matchers[i])

\* Variant of unwatch that forgets the file alone, without the loop over
\* blamedFiles.
unwatchOnly(reg, file) ==
    [reg EXCEPT
       !.chokidar = IF NoMatcherWantsChanges(reg, file) THEN @ \ {file} ELSE @,
       !.watchedFiles = @ \ {file},
       !.blamedFiles[file] = NoEntry,
       !.criticalFiles = @ \ {file}]

RECURSIVE unwatch(_, _), unwatchRelated(_, _, _)
\* The loop `for (const [relatedFile, causes] of blamedFiles)` of unwatch.
unwatchRelated(reg, file, todo) ==
    IF todo = <<>> THEN reg
    ELSE LET q == Head(todo)
             e == reg.blamedFiles[q]
         IN  IF e.has /\ InSeq(file, e.causes)
             THEN LET r2 == [reg EXCEPT
                               !.blamedFiles[q].causes = SetDelete(@, file)]
                  IN  IF r2.blamedFiles[q].causes = <<>>
                      THEN unwatchRelated(unwatch(r2, q), file, Tail(todo))
                      ELSE unwatchRelated(r2, file, Tail(todo))
             ELSE unwatchRelated(reg, file, Tail(todo))

unwatch(reg, file) ==
    LET r1 == [reg EXCEPT
                 !.chokidar = IF NoMatcherWantsChanges(reg, file)
                              THEN @ \ {file} ELSE @,
                 !.watchedFiles = @ \ {file},
                 !.blamedFiles[file] = NoEntry,
                 !.criticalFiles = @ \ {file}]
    IN  unwatchRelated(r1, file, FileOrder)

isFileCritical(reg, file) == file \in reg.criticalFiles

close(reg) == [reg EXCEPT !.closed = TRUE]

\* Variant of the loop in which a matcher without ignoreEmptyNewFiles does
\* not keep the event.
RECURSIVE shouldIgnoreAddLoopNoVeto(_, _, _, _, _)
shouldIgnoreAddLoopNoVeto(reg, file, sizeIsZero, i, skip) ==
    IF i > Len(reg.matchers) THEN skip
    ELSE LET m == reg.matchers[i]
         IN  shouldIgnoreAddLoopNoVeto(reg, file, sizeIsZero, i + 1,
                 skip \/ (m.ignoreEmptyNewFiles /\ hasMatch(file, m)
                             /\ sizeIsZero))

\* shouldIgnoreAdd, the loop over matchers from index i with flag skip.
RECURSIVE shouldIgnoreAddLoop(_, _, _, _, _)
shouldIgnoreAddLoop(reg, file, sizeIsZero, i, skip) ==
    IF i > Len(reg.matchers) THEN skip
    ELSE LET m == reg.matchers[i]
         IN  IF ~m.ignoreEmptyNewFiles
             THEN IF hasMatch(file, m) THEN FALSE
                  ELSE shouldIgnoreAddLoop(reg, file, sizeIsZero, i + 1, skip)
             ELSE shouldIgnoreAddLoop(reg, file, sizeIsZero, i + 1,
                      skip \/ (hasMatch(file, m) /\ sizeIsZero))

\* Variant of shouldIgnoreAdd that drops every empty unwatched file.
shouldIgnoreAddEmpty(reg, file, sizeIsZero) ==
    file \notin reg.watchedFiles /\ sizeIsZero

shouldIgnoreAdd(reg, file, sizeIsZero) ==
    IF file \in reg.watchedFiles THEN FALSE
    ELSE shouldIgnoreAddLoop(reg, file, sizeIsZero, 1, FALSE)

\* Variant of shouldIgnoreChange that lets every change through.
shouldIgnoreChangeNever(reg, file) == FALSE

shouldIgnoreChange(reg, file) ==
    IF file \in reg.watchedFiles THEN FALSE
    ELSE \A i \in 1..Len(reg.matchers) :
            reg.matchers[i].ignoreChangeEvents
               \/ ~hasMatch(file, reg.matchers[i])

\* Whether chokidar reports an event on file to handleChange: the
\* recursive watcher covers the paths added to it, the children watcher
\* covers the children of every matcher base.
Delivers(reg, file) ==
    /\ ~reg.closed
    /\ \/ file \in reg.chokidar
       \/ \E i \in 1..Len(reg.matchers) :
             /\ ~isGlobstar(reg.matchers[i].pat)
             /\ \/ PatternBase(reg.matchers[i].pat) = file
                \/ PatternBase(reg.matchers[i].pat) = Root

\* handleChange: TRUE iff events.emit('watch', event, file) is reached.
handleChange(reg, event, file, sizeIsZero) ==
    /\ ~(event = "add" /\ shouldIgnoreAdd(reg, file, sizeIsZero))
    /\ ~(event = "change" /\ shouldIgnoreChange(reg, file))

\* ------------------------------------------------------------------------
\* State
\* ------------------------------------------------------------------------
VARIABLES
    status,        \* context.status
    runs,          \* one record per call of run(): its position
    promise,       \* the `promise` variable of the factory: index into runs
    conts,         \* per run, the continuations attached with promise.then
    microtasks,    \* the microtask queue
    changes,       \* the change log (`changes` Map of the factory), in order
    ctxChanges,    \* context.changes
    store,         \* context.store, as the set of keys written
    ctrl,          \* the AbortController of the context
    watcher,       \* the current watch registry
    firstWatcher,  \* watchedFiles and blamedFiles of the registry created at
                   \* construction, once that registry has been replaced
    generation,    \* number of registries created after the first
    destroyed,     \* destroy() has been called
    disk,          \* the filesystem: what exists at each path
    \* History variables: they record what happened and are read by no action.
    last,          \* the step just taken, when it was a notification, a
                   \* reset or a start, with the state it was taken in
    owed,          \* dependencies hit by an event no started run has seen
    logged,        \* keys written to the change log since the last 'start'
    observed,      \* per key, in order of first logging since the log was
                   \* cleared: the last add/unlink notified for that path
    blameSeen,     \* paths involved in blame resolution since then
    openWatchers,  \* registries created and not closed
    \* fs.write, on its own: one path and its parent directory.
    writeFs,       \* the parent directory exists; the bytes of the file
    writeEvents,   \* number of 'write' events emitted
    writeLast,     \* history: the last call of fs.write
    \* The existence watcher, on its own.
    existence,     \* watchedFiles and the three sets of existence paths
    existsLast,    \* history: the last event chokidar delivered to it
    \* waitForStart.
    startEvent,    \* the `startEvent` variable of the factory: the number of
                   \* the deferred it holds
    waits,         \* the promises returned by waitForStart, in call order
    \* compose(A, B), on its own.
    runners,       \* the children, in factory order
    composeLast,   \* history: the last step of the composed engine
    findFs,        \* fs.findUp on its own: the directory tree and the call
    findState,     \* fs.findUp on its own: what the call left, the last step
    registry,      \* the watch registry on its own
    regLast        \* history: the last call on that registry

program == <<status, runs, promise, conts, microtasks, changes, ctxChanges,
             store, ctrl, watcher, firstWatcher, generation, destroyed, disk>>

history == <<last, owed, logged, observed, blameSeen, openWatchers>>

\* The parts of the library that are modelled on their own, each under a
\* specification of its own.
writeUnit == <<writeFs, writeEvents, writeLast>>

existsUnit == <<existence, existsLast>>

waitUnit == <<startEvent, waits>>

composeUnit == <<runners, composeLast>>

findUnit == <<findFs, findState>>

regUnit == <<registry, regLast>>

\* What the engine's own actions leave alone.
units == <<writeUnit, existsUnit, composeUnit, findUnit, regUnit>>

others ==
    <<writeUnit, existsUnit, waitUnit, composeUnit, findUnit, regUnit>>

vars == <<program, history, others>>

Pending == "pending"
Running == "running"
Finished == "finished"

isFile(d, f) == d[f] \in {"empty", "full"}
isDirectory(d, f) == d[f] = "dir"

\* ------------------------------------------------------------------------
\* context.ts: reset
\* ------------------------------------------------------------------------
LogKeys(log) == {log[i].key : i \in 1..Len(log)}

\* Variant of someCritical that takes every watched file for critical.
someWatched(reg, log) == \E k \in LogKeys(log) : k \in reg.watchedFiles

\* some(changes.keys(), watcher.isFileCritical)
someCritical(reg, log) == \E k \in LogKeys(log) : isFileCritical(reg, k)

\* The loop over options.watch that follows a hard reset.
RECURSIVE watchInitial(_, _, _)
watchInitial(reg, inputs, d) ==
    IF inputs = <<>> THEN reg
    ELSE LET input == Head(inputs)
             r == IF isFile(d, input)
                  THEN addFile(reg, input, FALSE, <<>>, FALSE)
                  ELSE IF isDirectory(d, input)
                  THEN add(reg, DirGlob(input), FALSE, FALSE)
                  ELSE add(reg, Literal(input), FALSE, FALSE)
         IN  watchInitial(r, Tail(inputs), d)

\* The soft-reset loop: unwatch every file whose event is not "add".
RECURSIVE softReset(_, _)
softReset(reg, log) ==
    IF log = <<>> THEN reg
    ELSE softReset(IF Head(log).event # "add"
                   THEN unwatch(reg, resolve(relative(Head(log).key)))
                   ELSE reg,
                   Tail(log))

\* Variant of resetStore that clears the store on every reset.
resetStoreFresh(st, reg, log) == {}

\* reset(changes) with a change log: the store and the registry afterwards.
resetStore(st, reg, log) == IF someCritical(reg, log) THEN {} ELSE st

resetWatcher(reg, log, inputs, d) ==
    IF someCritical(reg, log)
    THEN watchInitial(createJumpgenWatcher, inputs, d)
    ELSE softReset(reg, log)

newAbortController == [aborted |-> FALSE, reason |-> "none"]

\* Variant of AbortController.abort(reason): a later reason replaces the
\* first.
abortCtrlReplaces(c, reason) == [aborted |-> TRUE, reason |-> reason]

\* AbortController.abort(reason): the first reason is kept.
abortCtrl(c, reason) ==
    IF c.aborted THEN c ELSE [aborted |-> TRUE, reason |-> reason]

\* context.abort(reason): only while Running.
abort(c, st, reason) == IF st = Running THEN abortCtrl(c, reason) ELSE c

\* The 'abort' event of context.abort(reason).
abortEmits(st, reason) ==
    IF st = Running THEN << [type |-> "abort", reason |-> reason] >> ELSE <<>>

\* ------------------------------------------------------------------------
\* generator.ts: the 'watch' listener
\* ------------------------------------------------------------------------
\* The registry whose watchedFiles / blamedFiles the listener holds: they
\* were read from context.watcher once, when the factory ran.
captured(reg) ==
    [watchedFiles |-> reg.watchedFiles, blamedFiles |-> reg.blamedFiles]

listenerWatcher == IF generation = 0 THEN captured(watcher) ELSE firstWatcher

simplify(event) ==
    CASE event = "addDir"    -> "add"
      [] event = "unlinkDir" -> "unlink"
      [] OTHER               -> event

IndexOfKey(log, key) == CHOOSE i \in 1..Len(log) : log[i].key = key

\* Variant of logChange in which the last event always wins.
logChangeOverwrite(log, key, event) ==
    IF key \notin LogKeys(log)
    THEN Append(log, [key |-> key, event |-> event])
    ELSE [log EXCEPT ![IndexOfKey(log, key)].event = event]

\* One iteration of the loop over blamed files.
logChange(log, key, event) ==
    IF key \notin LogKeys(log)
    THEN Append(log, [key |-> key, event |-> event])
    ELSE IF event # "change"
    THEN [log EXCEPT ![IndexOfKey(log, key)].event = event]
    ELSE log

RECURSIVE logChanges(_, _, _)
logChanges(log, keys, event) ==
    IF keys = <<>> THEN log
    ELSE logChanges(logChange(log, Head(keys), event), Tail(keys), event)

\* blamedFiles.get(file) ?? [file]
blamedOrSelf(reg, file) ==
    IF reg.blamedFiles[file].has THEN reg.blamedFiles[file].causes
    ELSE <<file>>

\* The listener drops the event before touching the log.
listenerIgnores(reg, event, file) ==
    event = "change" /\ file \notin reg.watchedFiles

\* ------------------------------------------------------------------------
\* Promises
\* ------------------------------------------------------------------------
Task(t, i) == [t |-> t, run |-> i]

settled(i) == runs[i].phase \in {"fulfilled", "rejected", "released"}

\* Variant of handles: every continuation handles fulfilment only.
handlesFulfilled(kind, phase) == phase = "fulfilled"

\* Whether a continuation is called when its promise settles so:
\* then(rerun, rerun) handles both outcomes, the program's then(f) only
\* fulfilment.
handles(kind, phase) == kind = "rerun" \/ phase = "fulfilled"

\* Runs already created plus continuations that may create one.
Scheduled ==
    Len(runs)
    + Cardinality({<<i, j>> \in (1..Len(conts)) \X (1..MaxRuns) :
                      j <= Len(conts[i])})
    + Cardinality({j \in 1..Len(microtasks) : microtasks[j].t # "start"})

\* Runs that are scheduled and have not started: calls of the rerun closure
\* waiting on a promise or in the microtask queue, and runs waiting at the
\* first await of run().
Waiting ==
    Cardinality({<<i, j>> \in (1..Len(conts)) \X (1..MaxRuns) :
                    j <= Len(conts[i]) /\ conts[i][j] = "rerun"})
    + Cardinality({j \in 1..Len(microtasks) : microtasks[j].t = "rerun"})
    + Cardinality({i \in 1..Len(runs) : runs[i].phase = "pre"})

\* promise.then(k, k) with the queue mt: a settled promise queues the
\* continuation at once, a pending one keeps it.
thenConts(kind) ==
    IF settled(promise) THEN conts
    ELSE [conts EXCEPT ![promise] = Append(@, kind)]

thenQueue(mt, kind) ==
    IF settled(promise) /\ handles(kind, runs[promise].phase)
    THEN Append(mt, Task(kind, 0))
    ELSE mt

\* ------------------------------------------------------------------------
\* context.ts: the filesystem facade, as used by the body
\* ------------------------------------------------------------------------
Call(op, file, flag, arg) == [op |-> op, file |-> file, flag |-> flag, arg |-> arg]

\* fs.read(file, {critical}) (also tryRead; stat and lstat without critical).
fsRead(reg, file, critical) == addFile(reg, file, FALSE, <<>>, critical)

\* fs.scan("*", {ignoreEmptyNewFiles}).
fsScan(reg, ignoreEmptyNewFiles) == add(reg, Star, ignoreEmptyNewFiles, FALSE)

\* fs.watch(file, {cause}).
fsWatch(reg, file, cause) == addFile(reg, file, TRUE, <<cause>>, FALSE)

\* fs.list(root, {glob: "[ab]"}): watchReaddir.
fsList(reg) == add(reg, ListGlob, FALSE, FALSE)

\* The synchronous parts a body may consist of.
Scripts ==
    { <<>>,
      << Call("read", "b", FALSE, ""), Call("store", "", FALSE, "seed") >>,
      << Call("scan", "", FALSE, "") >>,
      << Call("scan", "", TRUE, "") >>,
      << Call("watch", "c", FALSE, "a"), Call("read", "a", FALSE, "") >>,
      << Call("watch", "c", FALSE, "a"), Call("watch", "b", FALSE, "./a"),
         Call("read", "a", TRUE, ""), Call("store", "", FALSE, "seed") >> }

\* Bodies that list the children of root.
ListScripts ==
    { <<>>,
      << Call("list", "", FALSE, "") >> }

Scans(script) ==
    Cardinality({i \in 1..Len(script) : script[i].op \in {"scan", "list"}})

RECURSIVE bodyWatcher(_, _)
bodyWatcher(reg, script) ==
    IF script = <<>> THEN reg
    ELSE LET c == Head(script)
             r == CASE c.op = "read"  -> fsRead(reg, c.file, c.flag)
                    [] c.op = "scan"  -> fsScan(reg, c.flag)
                    [] c.op = "watch" -> fsWatch(reg, c.file, c.arg)
                    [] c.op = "list"  -> fsList(reg)
                    [] OTHER          -> reg
         IN  bodyWatcher(r, Tail(script))

bodyStore(st, script) ==
    st \cup {script[i].arg : i \in {j \in 1..Len(script) : script[j].op = "store"}}

\* tinyglobby's globSync("*"): the regular files below root.
globSync(d) == {f \in Files : isFile(d, f)}

\* ------------------------------------------------------------------------
\* History records
\* ------------------------------------------------------------------------
\* An event emitted on context.events.
Ev(type, reason) == [type |-> type, reason |-> reason]

NoLast ==
    [ kind |-> "none", event |-> "", file |-> "", emitted |-> FALSE,
      quiet |-> FALSE, scanning |-> FALSE, hard |-> FALSE,
      scanned |-> FALSE, scan |-> {},
      preWatcher |-> createJumpgenWatcher, preChanges |-> <<>>,
      preStore |-> {}, preStatus |-> "", preCtrl |-> newAbortController,
      preScheduled |-> 0, outcome |-> "", emits |-> <<>>, via |-> "",
      run |-> 0, thrown |-> "", isLogged |-> FALSE, rel |-> FALSE,
      preFailed |-> FALSE, preWaiting |-> 0 ]

\* Nothing is in progress and nothing is scheduled.
Quiescent ==
    /\ microtasks = <<>>
    /\ status = Finished
    /\ \A i \in 1..Len(runs) : settled(i) /\ conts[i] = <<>>

\* The registry holds a matcher of a scan("*") without ignoreEmptyNewFiles.
scanning(reg) ==
    \E i \in 1..Len(reg.matchers) :
        reg.matchers[i].pat = Star /\ ~reg.matchers[i].ignoreEmptyNewFiles

\* The body depends on file: it read or watched it, or it scanned "*"
\* without ignoreEmptyNewFiles and the event adds or removes a match.  The
\* paths of the watch option are left out: the engine watches them whatever
\* the body does.
relevant(reg, event, file) ==
    /\ ~reg.closed
    /\ file \notin Range(WatchOption)
    /\ \/ file \in reg.watchedFiles /\ event \in {"add", "change", "unlink"}
       \/ event \in {"add", "unlink"} /\ scanning(reg)

RECURSIVE observe(_, _, _, _)
observe(obs, keys, event, file) ==
    IF keys = <<>> THEN obs
    ELSE LET k == Head(keys)
             au == CASE event \in {"add", "addDir"}       -> "add"
                     [] event \in {"unlink", "unlinkDir"} -> "unlink"
                     [] OTHER                             -> "none"
             known == \E i \in 1..Len(obs) : obs[i].key = k
             i0 == CHOOSE i \in 1..Len(obs) : obs[i].key = k
             o == IF ~known THEN Append(obs, [key |-> k, au |-> au])
                  ELSE IF au # "none" THEN [obs EXCEPT ![i0].au = au]
                  ELSE obs
         IN  observe(o, Tail(keys), event, file)

\* ------------------------------------------------------------------------
\* Initial state: the factory has returned, run() waits at its first await
\* ------------------------------------------------------------------------
EngineInit ==
    /\ disk = InitialDisk
    /\ watcher = watchInitial(createJumpgenWatcher, WatchOption, disk)
    /\ firstWatcher = captured(createJumpgenWatcher)
    /\ generation = 0
    /\ status = Pending
    /\ runs = << [phase |-> "pre"] >>
    /\ promise = 1
    /\ conts = << <<>> >>
    /\ microtasks = << Task("start", 1) >>
    /\ changes = <<>>
    /\ ctxChanges = <<>>
    /\ store = {}
    /\ ctrl = newAbortController
    /\ destroyed = FALSE
    /\ last = NoLast
    /\ owed = {}
    /\ logged = {}
    /\ observed = <<>>
    /\ blameSeen = {}
    /\ openWatchers = 1
    /\ startEvent = 1
    /\ waits = <<>>

\* A path that does not exist, in a directory that does not exist.
NoFile == [dir |-> FALSE, exists |-> FALSE, content |-> <<>>]

NoWrite == [op |-> "none", data |-> <<>>, string |-> FALSE, pre |-> NoFile,
            emits |-> 0, prev |-> "none"]

WriteOff == writeFs = NoFile /\ writeEvents = 0 /\ writeLast = NoWrite

\* createExistenceWatcher: no path is registered.
createExistenceWatcher ==
    [ watchedFiles |-> {}, existencePaths |-> {},
      fileExistencePaths |-> {}, dirExistencePaths |-> {} ]

NoDelivery == [kind |-> "none", event |-> "", file |-> "", forwarded |-> FALSE]

ExistsOff == existence = createExistenceWatcher /\ existsLast = NoDelivery

NoStep == [op |-> "none"]

ComposeOff == runners = <<>> /\ composeLast = NoStep

FindOff == findFs = NoStep /\ findState = NoStep

RegOff == registry = NoStep /\ regLast = NoStep

Init == EngineInit /\ WriteOff /\ ExistsOff /\ ComposeOff /\ FindOff /\ RegOff

\* ------------------------------------------------------------------------
\* generator.ts: rerun (the closure) and rerun() (the instance method)
\* ------------------------------------------------------------------------
\* `promise = run(context)` drops the factory's reference to the earlier
\* promise: once settled, its outcome can reach no continuation any more.
released(rs) ==
    [i \in 1..Len(rs) |->
        IF rs[i].phase \in {"fulfilled", "rejected"}
        THEN [rs[i] EXCEPT !.phase = "released"] ELSE rs[i]]

\* Array.from(changes.values())
publish(log) ==
    [i \in 1..Len(log) |->
        [event |-> log[i].event, file |-> relative(log[i].key)]]

\* The closure `rerun`, called with mt as the rest of the microtask queue.
rerun(mt) ==
    /\ Len(runs) < MaxRuns
    /\ store' = resetStore(store, watcher, changes)
    /\ watcher' = resetWatcher(watcher, changes, WatchOption, disk)
    /\ firstWatcher' = IF someCritical(watcher, changes) /\ generation = 0
                       THEN captured(watcher) ELSE firstWatcher
    /\ generation' = IF someCritical(watcher, changes)
                     THEN generation + 1 ELSE generation
    /\ ctrl' = newAbortController
    /\ ctxChanges' = publish(changes)
    /\ changes' = <<>>
    /\ runs' = Append(released(runs), [phase |-> "pre"])
    /\ conts' = Append(conts, <<>>)
    /\ promise' = Len(runs) + 1
    /\ microtasks' = Append(mt, Task("start", Len(runs) + 1))
    /\ UNCHANGED <<status, destroyed, disk>>
    /\ last' = [NoLast EXCEPT
                  !.kind = "reset",
                  !.via = IF microtasks = <<>> THEN "call"
                          ELSE Head(microtasks).t,
                  !.preStatus = status,
                  !.preFailed = runs[promise].phase = "rejected",
                  !.preWaiting = Waiting,
                  !.event = IF last.kind = "event" THEN last.event ELSE "",
                  !.file = IF last.kind = "event" THEN last.file ELSE "",
                  !.quiet = last.kind = "event" /\ last.quiet,
                  !.emitted = last.kind = "event" /\ last.emitted,
                  !.scanning = last.kind = "event" /\ last.scanning,
                  !.preScheduled =
                      IF last.kind = "event" THEN last.preScheduled ELSE 0,
                  !.hard = generation' # generation,
                  !.preWatcher = watcher,
                  !.preChanges = changes,
                  !.preStore = store]
    /\ openWatchers' = IF generation' # generation
                       THEN (IF watcher.closed THEN openWatchers
                             ELSE openWatchers - 1) + 1
                       ELSE openWatchers
    /\ observed' = <<>>
    /\ blameSeen' = {}
    /\ UNCHANGED <<owed, logged>>
    /\ UNCHANGED <<units, waitUnit>>

\* rerun() while Pending: `startEvent.promise.then(() => promise)`.
rerunPending(mt) ==
    /\ microtasks' = mt
    /\ last' = [NoLast EXCEPT
                  !.kind = "call", !.preStatus = status,
                  !.preCtrl = ctrl, !.preScheduled = Scheduled,
                  !.preWaiting = Waiting]
    /\ UNCHANGED <<status, runs, promise, conts, changes, ctxChanges,
                   store, ctrl, watcher, firstWatcher, generation,
                   destroyed, disk>>
    /\ UNCHANGED <<owed, logged, observed, blameSeen, openWatchers>>
    /\ UNCHANGED <<units, waitUnit>>

\* rerun() otherwise: context.abort('rerun'), promise.then(rerun, rerun).
rerunRunning(mt) ==
    /\ ctrl' = abort(ctrl, status, "rerun")
    /\ conts' = thenConts("rerun")
    /\ microtasks' = thenQueue(mt, "rerun")
    /\ last' = [NoLast EXCEPT
                  !.kind = "call", !.preStatus = status,
                  !.preCtrl = ctrl, !.preScheduled = Scheduled,
                  !.preWaiting = Waiting,
                  !.emits = abortEmits(status, "rerun")]
    /\ UNCHANGED <<status, runs, promise, changes, ctxChanges, store,
                   watcher, firstWatcher, generation, destroyed, disk>>
    /\ UNCHANGED <<owed, logged, observed, blameSeen, openWatchers>>
    /\ UNCHANGED <<units, waitUnit>>

\* Variant of the instance method rerun(): a Finished engine chains the
\* rerun closure on the current promise instead of calling it.
instanceRerunChains(mt) ==
    IF status = Pending THEN rerunPending(mt) ELSE rerunRunning(mt)

\* The instance method rerun().
instanceRerun(mt) ==
    IF status = Finished THEN rerun(mt)
    ELSE IF status = Pending THEN rerunPending(mt)
    ELSE rerunRunning(mt)

\* ------------------------------------------------------------------------
\* Microtasks
\* ------------------------------------------------------------------------
\* Variant of the 'start' listener: it is attached after the first 'start'.
startListenerLate(ws, id) ==
    [k \in 1..Len(ws) |->
        IF ws[k].deferred = id /\ ws[k].state = "pending" /\ id > 1
        THEN [ws[k] EXCEPT !.state = "resolved"] ELSE ws[k]]

\* The 'start' listener of the factory: startEvent.resolve() settles the
\* promises that wait on deferred number id and are still pending.
startListener(ws, id) ==
    [k \in 1..Len(ws) |->
        IF ws[k].deferred = id /\ ws[k].state = "pending"
        THEN [ws[k] EXCEPT !.state = "resolved"] ELSE ws[k]]

\* run() resumes after `await Promise.resolve()`: status, 'start', and the
\* body runs its synchronous part, the calls of `script`, up to its first
\* await.
Start(script) ==
    /\ microtasks # <<>>
    /\ Head(microtasks).t = "start"
    /\ Len(watcher.matchers) + Scans(script) <= MaxMatchers
    /\ status' = Running
    /\ runs' = [runs EXCEPT ![Head(microtasks).run].phase = "body"]
    /\ microtasks' = Tail(microtasks)
    /\ watcher' = bodyWatcher(watcher, script)
    /\ store' = bodyStore(store, script)
    /\ UNCHANGED <<promise, conts, changes, ctxChanges, ctrl, firstWatcher,
                   generation, destroyed, disk>>
    /\ last' = [NoLast EXCEPT
                  !.kind = "start",
                  !.emits = << Ev("start", "") >>,
                  !.run = Head(microtasks).run,
                  !.via = IF last.kind = "reset" THEN last.via ELSE "",
                  !.preWaiting =
                      IF last.kind = "reset" THEN last.preWaiting ELSE 0,
                  !.event = IF last.kind = "reset" THEN last.event ELSE "",
                  !.file = IF last.kind = "reset" THEN last.file ELSE "",
                  !.quiet = last.kind = "reset" /\ last.quiet,
                  !.scanning = last.kind = "reset" /\ last.scanning,
                  !.preScheduled =
                      IF last.kind = "reset" THEN last.preScheduled ELSE 0,
                  !.scanned = Scans(script) > 0,
                  !.scan = IF Scans(script) > 0 THEN globSync(disk) ELSE {}]
    /\ owed' = owed \ {resolve(ctxChanges[i].file) : i \in 1..Len(ctxChanges)}
    /\ logged' = {}
    /\ UNCHANGED <<observed, blameSeen, openWatchers>>
    /\ startEvent' = startEvent + 1
    /\ waits' = startListener(waits, startEvent)
    /\ UNCHANGED units

\* A continuation attached by promise.then(rerun, rerun).
RerunContinuation ==
    /\ microtasks # <<>>
    /\ Head(microtasks).t = "rerun"
    /\ rerun(Tail(microtasks))

\* A continuation of the embedding program that calls rerun().
UserContinuation ==
    /\ microtasks # <<>>
    /\ Head(microtasks).t = "userRerun"
    /\ instanceRerun(Tail(microtasks))

\* ------------------------------------------------------------------------
\* Macrotasks
\* ------------------------------------------------------------------------
Idle == microtasks = <<>>

\* The program's synchronous code that follows the call of the factory:
\* run 1 has not resumed from its first await.
InitialBlock == Len(runs) = 1 /\ runs[1].phase = "pre"

\* The promise of run i settles as `phase`: `finally`, then the
\* continuations that handle the outcome.
settle(i, phase) ==
    LET called == SelectSeq(conts[i], LAMBDA k : handles(k, phase))
    IN  /\ status' = Finished
        /\ runs' = [runs EXCEPT ![i].phase = phase]
        /\ microtasks' = [j \in 1..Len(called) |-> Task(called[j], 0)]
        /\ conts' = [conts EXCEPT ![i] = <<>>]

\* The body's promise resolves; run() goes on to await watcher.ready.
BodyResolve(i) ==
    /\ Idle
    /\ runs[i].phase = "body"
    /\ runs' = [runs EXCEPT ![i].phase = "ready"]
    /\ last' = NoLast
    /\ UNCHANGED <<status, promise, conts, microtasks, changes, ctxChanges,
                   store, ctrl, watcher, firstWatcher, generation, destroyed,
                   disk>>
    /\ UNCHANGED <<owed, logged, observed, blameSeen, openWatchers>>
    /\ UNCHANGED <<units, waitUnit>>

\* The values a body throws or rejects with: an AbortError, another Error,
\* and a value that is not an Error.
Thrown == {"AbortError", "Error", "value"}

isError(error) == error \in {"AbortError", "Error"}

\* Variant of isAbortError: no value is taken for an AbortError.
isAbortErrorNever(error) == FALSE

isAbortError(error) == isError(error) /\ error = "AbortError"

\* new Error('Unexpected error: ' + String(error)) for a value that is not
\* an Error: the value run() rethrows.
wrapped(error) ==
    IF ~isAbortError(error) /\ ~isError(error)
    THEN "Error: Unexpected error: " \o error ELSE error

\* The catch block of run(): the events emitted for the thrown value.
catchEmits(error) ==
    IF ~isAbortError(error) THEN << Ev("error", wrapped(error)) >> ELSE <<>>

\* The body throws or rejects with `error`; run() rethrows it, wrapped if it
\* is not an Error.
BodyReject(i, error) ==
    /\ Idle
    /\ runs[i].phase = "body"
    /\ settle(i, "rejected")
    /\ last' = [NoLast EXCEPT
                  !.kind = "settle",
                  !.run = i,
                  !.outcome = IF error = "AbortError" THEN "abort"
                              ELSE "error",
                  !.thrown = wrapped(error),
                  !.emits = catchEmits(error),
                  !.preStatus = status]
    /\ UNCHANGED <<promise, changes, ctxChanges, store, ctrl, watcher,
                   firstWatcher, generation, destroyed, disk>>
    /\ UNCHANGED <<owed, logged, observed, blameSeen, openWatchers>>
    /\ UNCHANGED <<units, waitUnit>>

\* watcher.ready resolves: 'finish' is emitted and run() returns.
Finish(i) ==
    /\ Idle
    /\ runs[i].phase = "ready"
    /\ settle(i, "fulfilled")
    /\ last' = [NoLast EXCEPT
                  !.kind = "settle",
                  !.run = i,
                  !.outcome = "result",
                  !.emits = << Ev("finish", "") >>,
                  !.preStatus = status]
    /\ UNCHANGED <<promise, changes, ctxChanges, store, ctrl, watcher,
                   firstWatcher, generation, destroyed, disk>>
    /\ UNCHANGED <<owed, logged, observed, blameSeen, openWatchers>>
    /\ UNCHANGED <<units, waitUnit>>

\* The filesystem after the event.
diskAfter(event, file) ==
    CASE event = "add"       -> DiskStates(file) \cap {"empty", "full"}
      [] event = "change"    -> {"full"}
      [] event = "addDir"    -> DiskStates(file) \cap {"dir"}
      [] OTHER               -> {"none"}

diskAllows(event, file) ==
    CASE event = "add"       -> disk[file] = "none"
      [] event = "change"    -> isFile(disk, file)
      [] event = "unlink"    -> isFile(disk, file) /\ "none" \in DiskStates(file)
      [] event = "addDir"    -> disk[file] = "none"
      [] OTHER               -> isDirectory(disk, file)

\* Something happens to a path that chokidar reports on: the registry
\* filters the event (handleChange) and the 'watch' listener of the factory
\* logs it.  Changes to paths no chokidar instance covers are not modelled.
FsEvent(event, file) ==
    /\ Idle
    /\ Delivers(watcher, file)
    /\ diskAllows(event, file)
    /\ \E d \in diskAfter(event, file) : disk' = [disk EXCEPT ![file] = d]
    /\ LET emitted == handleChange(watcher, event, file,
                                   disk'[file] = "empty")
           isLogged == /\ emitted
                       /\ ~listenerIgnores(listenerWatcher, event, file)
           keys == blamedOrSelf(listenerWatcher, file)
       IN  /\ IF isLogged
              THEN /\ changes' = logChanges(changes, keys, simplify(event))
                   /\ IF status # Pending
                      THEN /\ Scheduled < MaxRuns
                           /\ conts' = thenConts("rerun")
                           /\ microtasks' = thenQueue(<<>>, "rerun")
                           /\ ctrl' = abort(ctrl, status, "watch")
                           /\ status' = Pending
                      ELSE UNCHANGED <<conts, microtasks, ctrl, status>>
                   /\ logged' = logged \cup {resolve(k) : k \in Range(keys)}
                   /\ observed' = observe(observed, keys, event, file)
                   /\ blameSeen' =
                        IF keys = <<file>> THEN blameSeen
                        ELSE blameSeen \cup Range(keys) \cup {file}
              ELSE UNCHANGED <<changes, conts, microtasks, ctrl, status,
                               logged, observed, blameSeen>>
           /\ last' = [NoLast EXCEPT
                         !.kind = "event", !.event = event, !.file = file,
                         !.emitted = emitted, !.quiet = Quiescent,
                         !.isLogged = isLogged,
                         !.rel = relevant(watcher, event, file),
                         !.scanning = scanning(watcher),
                         !.preChanges = changes, !.preStatus = status,
                         !.preCtrl = ctrl, !.preScheduled = Scheduled,
                         !.emits = IF isLogged /\ status # Pending
                                   THEN abortEmits(status, "watch")
                                   ELSE <<>>]
    /\ owed' = IF relevant(watcher, event, file) /\ ~destroyed
               THEN owed \cup {resolve(k) :
                                 k \in Range(blamedOrSelf(captured(watcher),
                                                          file))}
               ELSE owed
    /\ UNCHANGED <<runs, promise, ctxChanges, store, watcher, firstWatcher,
                   generation, destroyed, openWatchers>>
    /\ UNCHANGED <<units, waitUnit>>

\* The embedding program calls rerun().
CallRerun ==
    /\ Idle
    /\ Scheduled < MaxRuns
    /\ instanceRerun(<<>>)

\* The embedding program calls then(() => generator.rerun()).
AttachThen ==
    /\ Idle
    /\ Scheduled < MaxRuns
    /\ conts' = thenConts("userRerun")
    /\ microtasks' = thenQueue(<<>>, "userRerun")
    /\ last' = NoLast
    /\ UNCHANGED <<status, runs, promise, changes, ctxChanges, store, ctrl,
                   watcher, firstWatcher, generation, destroyed, disk>>
    /\ UNCHANGED <<owed, logged, observed, blameSeen, openWatchers>>
    /\ UNCHANGED <<units, waitUnit>>

\* context.destroy().
Destroy ==
    /\ Idle \/ InitialBlock
    /\ ~destroyed
    /\ ctrl' = abortCtrl(ctrl, "destroy")
    /\ watcher' = close(watcher)
    /\ destroyed' = TRUE
    /\ last' = [NoLast EXCEPT
                  !.kind = "destroy",
                  !.emits = << Ev("destroy", "") >>,
                  !.preStatus = status,
                  !.preCtrl = ctrl]
    /\ owed' = {}
    /\ openWatchers' = IF watcher.closed THEN openWatchers
                       ELSE openWatchers - 1
    /\ UNCHANGED <<status, runs, promise, conts, microtasks, changes,
                   ctxChanges, store, firstWatcher, generation, disk>>
    /\ UNCHANGED <<logged, observed, blameSeen>>
    /\ UNCHANGED <<units, waitUnit>>

Events == {"add", "addDir", "change", "unlink", "unlinkDir"}

Next ==
    \/ \E script \in Scripts : Start(script)
    \/ RerunContinuation
    \/ UserContinuation
    \/ \E i \in 1..MaxRuns : i <= Len(runs) /\ BodyResolve(i)
    \/ \E i \in 1..MaxRuns, error \in Thrown :
          i <= Len(runs) /\ BodyReject(i, error)
    \/ \E i \in 1..MaxRuns : i <= Len(runs) /\ Finish(i)
    \/ \E e \in Events, f \in Files : FsEvent(e, f)
    \/ CallRerun
    \/ AttachThen
    \/ Destroy

Spec == Init /\ [][Next]_vars

\* ------------------------------------------------------------------------
\* Properties
\* ------------------------------------------------------------------------
BodiesInProgress == {i \in 1..Len(runs) : runs[i].phase = "body"}

TypeOK ==
    /\ status \in {Pending, Running, Finished}
    /\ Len(runs) <= MaxRuns
    /\ promise \in 1..Len(runs)

\* C1: at most one invocation of the generator body is in progress at any
\* time: no run starts its body while the body of an earlier run has not
\* settled.
AtMostOneBody == Cardinality(BodiesInProgress) <= 1

\* C2: in watch mode, a relevant event on a registered dependency is seen
\* in context.changes by a run started after it: the engine never comes to
\* rest while some dependency's event has been seen by no started run.
NoEventLost == (~destroyed /\ Quiescent) => owed = {}

\* An applicable scanned or listed pattern exists for file.
scannedMatch(reg, file) ==
    \E i \in 1..Len(reg.matchers) : hasMatch(file, reg.matchers[i])

\* C3: a 'change' notification for a path that matches a scanned pattern
\* and is not in watchedFiles leaves the change log, the cancellation token,
\* the status and the scheduled continuations as they were.
ScannedChangeIgnored ==
    ( /\ last.kind = "event"
      /\ last.event = "change"
      /\ last.file \notin watcher.watchedFiles
      /\ scannedMatch(watcher, last.file) )
    => /\ changes = last.preChanges
       /\ ctrl = last.preCtrl
       /\ status = last.preStatus
       /\ Scheduled = last.preScheduled
       /\ microtasks = <<>>

ScannedChangeIgnoredWitness ==
    /\ last.kind = "event"
    /\ last.event = "change"
    /\ last.file \notin watcher.watchedFiles
    /\ \E i \in 1..Len(watcher.matchers) : watcher.matchers[i].pat = Star
    /\ status = Running
    /\ ~ctrl.aborted

\* C4: once a run whose body scanned "*" without ignoreEmptyNewFiles has
\* finished and the engine is at rest, the creation of a matching file, empty
\* or not, schedules exactly one rerun; exactly one new run starts from it,
\* and a scan in that run returns the new file.
ScanAddReruns ==
    /\ ( /\ last.kind = "event" /\ last.event = "add"
         /\ last.quiet /\ last.scanning )
       => /\ last.emitted
          /\ status = Pending
          /\ microtasks = << Task("rerun", 0) >>
          /\ Scheduled = last.preScheduled + 1
    /\ ( /\ last.kind = "start" /\ last.event = "add"
         /\ last.quiet /\ last.scanning )
       => /\ Len(runs) = last.preScheduled + 1
          /\ Scheduled = Len(runs)
          /\ BodiesInProgress = {Len(runs)}
          /\ last.scanned => last.file \in last.scan

ScanAddRerunsWitness ==
    /\ last.kind = "start" /\ last.event = "add"
    /\ last.quiet /\ last.scanning
    /\ last.scanned
    /\ disk[last.file] = "empty"
    /\ last.file \in last.scan

\* C5: when a run after the first is about to start its body,
\* context.changes holds exactly one entry for each path logged since the
\* previous start: none is missing, none is older, none is repeated.
ChangesSincePreviousStart ==
    ( /\ microtasks # <<>>
      /\ Head(microtasks).t = "start"
      /\ Head(microtasks).run > 1 )
    => /\ {resolve(ctxChanges[i].file) : i \in 1..Len(ctxChanges)} = logged
       /\ \A i, j \in 1..Len(ctxChanges) :
             ctxChanges[i].file = ctxChanges[j].file => i = j

\* C6: the change log holds one entry per logged path, in the order in
\* which the paths were first logged since the log was cleared; the entry of
\* a path that took no part in blaming has the last add or unlink notified
\* for it (addDir counting as add, unlinkDir as unlink), and 'change' when
\* there was none: a later 'change' never replaces an 'add' or 'unlink'.
FoldedLog ==
    /\ Len(changes) = Len(observed)
    /\ \A i \in 1..Len(changes) :
          /\ changes[i].key = observed[i].key
          /\ changes[i].key \notin blameSeen
             => changes[i].event =
                  IF observed[i].au # "none" THEN observed[i].au ELSE "change"

\* A 'change' was logged for an unblamed path whose entry is an earlier 'add'.
FoldedLogWitness ==
    /\ last.kind = "event" /\ last.event = "change" /\ last.emitted
    /\ ~listenerIgnores(listenerWatcher, last.event, last.file)
    /\ last.file \notin blameSeen
    /\ \E i \in 1..Len(changes) :
          /\ changes[i].key = last.file
          /\ changes[i].event = "add"
          /\ last.preChanges[i] = changes[i]

\* C7: a notification for a watched file p that the registry blames on the
\* causes c1..cn is logged under every cause and under no other key (under
\* p only when p is one of its causes), and a 'change' of p is logged as a
\* 'change' of each cause not logged before.
BlamedOnCauses ==
    ( /\ last.kind = "event" /\ last.emitted
      /\ last.file \in watcher.watchedFiles
      /\ watcher.blamedFiles[last.file].has )
    => LET causes == Range(watcher.blamedFiles[last.file].causes)
           fresh == LogKeys(changes) \ LogKeys(last.preChanges)
       IN  /\ causes \subseteq LogKeys(changes)
           /\ fresh \subseteq causes
           /\ last.event = "change"
              => \A i \in 1..Len(changes) :
                    changes[i].key \in fresh => changes[i].event = "change"

\* Some key of the log the reset was called with was a critical file.
criticalLogged ==
    \E k \in LogKeys(last.preChanges) : k \in last.preWatcher.criticalFiles

\* C8: a reset replaces the registry (hard reset) exactly when a key of the
\* change log is a critical file; after it the store is empty, no registry
\* but the new one is open, and the new registry watches exactly the paths
\* of the watch option that are existing files.
HardResetIffCritical ==
    last.kind = "reset"
    => /\ last.hard <=> criticalLogged
       /\ last.hard
          => /\ store = {}
             /\ openWatchers <= 1
             /\ ~watcher.closed
             /\ watcher.watchedFiles =
                  {f \in Range(WatchOption) : isFile(disk, f)}
             /\ watcher.criticalFiles = {}

HardResetIffCriticalWitness ==
    /\ last.kind = "reset" /\ last.hard
    /\ last.preStore # {}
    /\ ~(last.preWatcher.watchedFiles \subseteq Range(WatchOption))
    /\ watcher.watchedFiles # {}

\* C9: a reset whose change log holds no critical file, the empty log
\* included, leaves the store as it was.
SoftResetKeepsStore ==
    (last.kind = "reset" /\ ~criticalLogged) => store = last.preStore

SoftResetKeepsStoreWitness ==
    /\ last.kind = "reset" /\ ~criticalLogged
    /\ last.preChanges # <<>>
    /\ last.preStore # {}
    /\ store = last.preStore

\* The paths a soft reset calls unwatch for.
notAdded(log) ==
    {resolve(log[i].key) : i \in {j \in 1..Len(log) : log[j].event # "add"}}

\* The files gone once the files of `gone` are unwatched: a blamed file
\* goes with the last of its causes.
RECURSIVE cascade(_, _)
cascade(reg, gone) ==
    LET more == gone \cup
                  {g \in Files : /\ reg.blamedFiles[g].has
                                 /\ reg.blamedFiles[g].causes # <<>>
                                 /\ Range(reg.blamedFiles[g].causes)
                                       \subseteq gone}
    IN  IF more = gone THEN gone ELSE cascade(reg, more)

\* C10 as stated: after a soft reset the files logged with 'change' or
\* 'unlink' are in none of watchedFiles, criticalFiles, blamedFiles, and
\* every other file watched before the reset is still watched.
SoftResetUnwatchesExactly ==
    (last.kind = "reset" /\ ~last.hard)
    => /\ \A f \in notAdded(last.preChanges) :
             /\ f \notin watcher.watchedFiles
             /\ f \notin watcher.criticalFiles
             /\ ~watcher.blamedFiles[f].has
       /\ \A f \in last.preWatcher.watchedFiles \ notAdded(last.preChanges) :
             f \in watcher.watchedFiles

\* C10, amended: after a soft reset the files logged with 'change' or
\* 'unlink' are in none of watchedFiles, criticalFiles, blamedFiles, and the
\* files still watched are those watched before, less the unwatched ones
\* and the blamed files that lost the last of their causes by it.
SoftResetUnwatchesCascade ==
    (last.kind = "reset" /\ ~last.hard)
    => /\ \A f \in notAdded(last.preChanges) :
             /\ f \notin watcher.watchedFiles
             /\ f \notin watcher.criticalFiles
             /\ ~watcher.blamedFiles[f].has
       /\ watcher.watchedFiles =
            last.preWatcher.watchedFiles
               \ cascade(last.preWatcher, notAdded(last.preChanges))

\* A soft reset unwatched a changed cause and, with it, a file without log
\* entry, while a file logged with 'add' stayed watched.
SoftResetUnwatchesCascadeWitness ==
    /\ last.kind = "reset" /\ ~last.hard
    /\ \E f \in notAdded(last.preChanges) : f \in last.preWatcher.watchedFiles
    /\ \E g \in last.preWatcher.watchedFiles \ LogKeys(last.preChanges) :
          g \notin watcher.watchedFiles

\* C11: a notification for a watched file blamed on a critical file, the
\* cause given as an absolute path or relative to root, makes the reset that
\* follows a hard one: the store is cleared and the registry replaced.
BlamedOnCriticalResetsHard ==
    ( /\ last.kind = "reset" /\ last.emitted
      /\ last.file \in last.preWatcher.watchedFiles
      /\ last.preWatcher.blamedFiles[last.file].has
      /\ \E c \in Range(last.preWatcher.blamedFiles[last.file].causes) :
            resolve(c) \in last.preWatcher.criticalFiles )
    => last.hard /\ store = {}

\* C12: once destroy() has been called no run starts: 'start' is not emitted
\* and the body is not invoked, whatever was scheduled before and whatever
\* is notified or called afterwards.
DestroyIsTerminal == destroyed => last.kind # "start"

\* C13: destroy() during a run whose token is live aborts the token with
\* reason 'destroy', closes the watchers and emits 'destroy' once; the
\* AbortError of the body is followed by no 'error' event; and a rerun()
\* called after destroy() resets nothing and starts no run.
DestroyWhileRunning ==
    /\ ( /\ last.kind = "destroy"
         /\ last.preStatus = Running /\ ~last.preCtrl.aborted )
       => /\ ctrl = [aborted |-> TRUE, reason |-> "destroy"]
          /\ watcher.closed
          /\ last.emits = << Ev("destroy", "") >>
    /\ (destroyed /\ last.kind = "settle" /\ last.outcome = "abort")
       => last.emits = <<>>
    /\ destroyed => ~(last.kind = "reset" /\ last.via \in {"call", "userRerun"})

\* C14: a run that returns emits exactly one 'finish' and no 'error' and
\* fulfils its promise; a run that throws an AbortError emits neither; a run
\* that throws any other value emits exactly one 'error', carrying the value
\* (wrapped into an Error if it is not one), and its promise rejects with
\* that same error; in all three cases status is Finished.
OutcomeClassified ==
    last.kind = "settle" =>
        /\ status = Finished
        /\ last.outcome = "result" =>
              /\ last.emits = << Ev("finish", "") >>
              /\ runs[last.run].phase = "fulfilled"
        /\ last.outcome = "abort" =>
              /\ last.emits = <<>>
              /\ runs[last.run].phase = "rejected"
        /\ last.outcome = "error" =>
              /\ last.emits = << Ev("error", last.thrown) >>
              /\ last.thrown \in {"Error", "Error: Unexpected error: value"}
              /\ runs[last.run].phase = "rejected"

OutcomeClassifiedWitness ==
    /\ last.kind = "settle"
    /\ last.outcome = "error"
    /\ last.thrown = "Error: Unexpected error: value"
    /\ Len(runs) > 1

RerunsCoalesce ==
    ( /\ \/ last.kind = "call"
         \/ last.kind = "reset" /\ last.via \in {"call", "userRerun"}
      /\ last.preWaiting > 0 )
    => Waiting = last.preWaiting

ResetExactlyOnce ==
    Cardinality({i \in 1..Len(runs) : runs[i].phase = "pre"}) <= 1

\* C19: when 'start' is emitted, for the first run and for every rerun,
\* context.signal has not been aborted.
SignalLiveAtStart ==
    last.kind = "start" => ~ctrl.aborted

ChangesEmptyOnlyFirstRun ==
    (last.kind = "start" /\ last.run > 1) => ctxChanges # <<>>

\* ========================================================================
\* context.ts: fs.write
\* ========================================================================
\* Bytes: "x" is an ASCII byte, "u" stands for the three bytes that encode
\* U+FFFD, "i" for a byte that is no valid UTF-8 (0xFF).  Characters: "x"
\* and "R" (U+FFFD).
Bytes == {"x", "u", "i"}
Chars == {"x", "R"}

SeqsUpTo(S, n) == UNION {[1..k -> S] : k \in 0..n}

\* readFileSync(file, 'utf8'): an invalid byte decodes to U+FFFD.
utf8Decode(bytes) ==
    [k \in 1..Len(bytes) |-> IF bytes[k] = "x" THEN "x" ELSE "R"]

\* What writeFileSync stores for a string.
utf8Encode(str) ==
    [k \in 1..Len(str) |-> IF str[k] = "x" THEN "x" ELSE "u"]

\* The bytes writeFileSync(file, data) stores.
bytesOf(data, string) == IF string THEN utf8Encode(data) ELSE data

\* The comparison of fs.write: false when readFileSync throws.
sameContent(fs, data, string) ==
    /\ fs.exists
    /\ IF string THEN utf8Decode(fs.content) = data
       ELSE fs.content = data

\* fs.write(file, data).
Write(data, string) ==
    /\ writeEvents < MaxWrites
    /\ IF sameContent(writeFs, data, string)
       THEN UNCHANGED <<writeFs, writeEvents>>
       ELSE /\ writeFs' = [dir |-> TRUE, exists |-> TRUE,
                           content |-> bytesOf(data, string)]
            /\ writeEvents' = writeEvents + 1
    /\ writeLast' = [op |-> "write", data |-> data, string |-> string,
                     pre |-> writeFs,
                     emits |-> writeEvents' - writeEvents,
                     prev |-> IF writeLast.op = "write"
                                 /\ writeLast.data = data
                                 /\ writeLast.string = string
                              THEN "same" ELSE "other"]
    /\ UNCHANGED <<program, history, existsUnit, waitUnit, composeUnit, findUnit, regUnit>>

\* Something else writes the file (exists) or removes it.
WriteFsChange(exists, content) ==
    /\ writeFs.dir
    /\ exists \/ content = <<>>
    /\ <<exists, content>> # <<writeFs.exists, writeFs.content>>
    /\ writeFs' = [writeFs EXCEPT !.exists = exists, !.content = content]
    /\ writeLast' = NoWrite
    /\ UNCHANGED <<writeEvents, program, history, existsUnit, waitUnit, composeUnit, findUnit, regUnit>>

\* The program creates the parent directory.
WriteMkdir ==
    /\ ~writeFs.dir
    /\ writeFs' = [writeFs EXCEPT !.dir = TRUE]
    /\ writeLast' = NoWrite
    /\ UNCHANGED <<writeEvents, program, history, existsUnit, waitUnit, composeUnit, findUnit, regUnit>>

InitWrite == EngineInit /\ WriteOff /\ ExistsOff /\ ComposeOff /\ FindOff /\ RegOff

NextWrite ==
    \/ \E data \in SeqsUpTo(Chars, MaxLen) : Write(data, TRUE)
    \/ \E data \in SeqsUpTo(Bytes, MaxLen) : Write(data, FALSE)
    \/ \E exists \in BOOLEAN, content \in SeqsUpTo(Bytes, MaxLen) :
          WriteFsChange(exists, content)
    \/ WriteMkdir

SpecWrite == InitWrite /\ [][NextWrite]_vars

\* C22: write(p, d) on a file that holds exactly d changes nothing and
\* emits no 'write' event; otherwise the parent directory exists afterwards,
\* the file holds d and exactly one 'write' event was emitted; the second of
\* two equal writes emits nothing; in every case the file holds d afterwards.
WriteContentSkipping ==
    writeLast.op = "write" =>
        LET d == bytesOf(writeLast.data, writeLast.string)
            held == writeLast.pre.exists /\ writeLast.pre.content = d
        IN  /\ held => writeFs = writeLast.pre /\ writeLast.emits = 0
            /\ ~held
               => /\ writeFs = [dir |-> TRUE, exists |-> TRUE, content |-> d]
                  /\ writeLast.emits = 1
            /\ writeLast.prev = "same" => writeLast.emits = 0
            /\ writeFs.exists /\ writeFs.content = d

\* ========================================================================
\* The engine with bodies that call fs.list
\* ========================================================================
NextList ==
    \/ \E script \in ListScripts : Start(script)
    \/ RerunContinuation
    \/ UserContinuation
    \/ \E i \in 1..MaxRuns : i <= Len(runs) /\ BodyResolve(i)
    \/ \E i \in 1..MaxRuns, error \in Thrown :
          i <= Len(runs) /\ BodyReject(i, error)
    \/ \E i \in 1..MaxRuns : i <= Len(runs) /\ Finish(i)
    \/ \E e \in Events, f \in Files : FsEvent(e, f)
    \/ CallRerun
    \/ AttachThen
    \/ Destroy

SpecList == Init /\ [][NextList]_vars

\* The registry holds the matcher of fs.list and nothing that covers file:
\* the file is not watched and no matcher matches it.
listedOnly(reg, file) ==
    /\ \E i \in 1..Len(reg.matchers) : reg.matchers[i].pat = ListGlob
    /\ file \notin reg.watchedFiles
    /\ \A i \in 1..Len(reg.matchers) : ~hasMatch(file, reg.matchers[i])

\* C23: after fs.list(dir, {glob: g}), adding or removing a child of dir
\* whose name does not match g emits no 'watch' event, logs nothing and
\* schedules no run.
ListIgnoresOtherChildren ==
    ( /\ last.kind = "event"
      /\ last.event \in {"add", "addDir", "unlink", "unlinkDir"}
      /\ listedOnly(watcher, last.file) )
    => /\ ~last.emitted
       /\ changes = last.preChanges
       /\ Scheduled = last.preScheduled

\* ========================================================================
\* watcher.ts: the existence watcher
\* ========================================================================
\* A directory and one of its children.
ExistencePaths == {"d", "d/x"}

dirname(file) == IF file = "d/x" THEN "d" ELSE "/"

\* isRelevantChange(event, file)
isRelevantChange(ex, event, file) ==
    IF event = "change" THEN FALSE
    ELSE IF file \in ex.watchedFiles THEN FALSE
    ELSE IF file \in ex.existencePaths THEN TRUE
    ELSE IF event \in {"add", "unlink"}
    THEN IF file \in ex.fileExistencePaths THEN TRUE
         ELSE file \notin ex.dirExistencePaths
    ELSE IF file \in ex.dirExistencePaths THEN TRUE
         ELSE file \notin ex.fileExistencePaths

\* The paths given to watcher.add and not removed by watcher.unwatch.
existenceWatched(ex) ==
    ex.existencePaths \cup ex.fileExistencePaths \cup ex.dirExistencePaths

\* chokidar with depth 0 reports on a watched path and on the children of a
\* watched directory.
existenceDelivers(ex, file) ==
    file \in existenceWatched(ex) \/ dirname(file) \in existenceWatched(ex)

\* exists.watch(file), by fs.exists and fs.symlinkExists.
ExistsWatch(file) ==
    /\ file \notin existence.existencePaths
    /\ existence' = [existence EXCEPT !.existencePaths = @ \cup {file}]
    /\ existsLast' = NoDelivery
    /\ UNCHANGED <<program, history, writeUnit, waitUnit, composeUnit, findUnit, regUnit>>

\* exists.watchFile(file), by fs.fileExists.
ExistsWatchFile(file) ==
    /\ file \notin existence.fileExistencePaths
    /\ existence' = [existence EXCEPT !.fileExistencePaths = @ \cup {file}]
    /\ existsLast' = NoDelivery
    /\ UNCHANGED <<program, history, writeUnit, waitUnit, composeUnit, findUnit, regUnit>>

\* exists.watchDirectory(dir), by fs.directoryExists.
ExistsWatchDirectory(dir) ==
    /\ dir \notin existence.dirExistencePaths
    /\ existence' = [existence EXCEPT !.dirExistencePaths = @ \cup {dir}]
    /\ existsLast' = NoDelivery
    /\ UNCHANGED <<program, history, writeUnit, waitUnit, composeUnit, findUnit, regUnit>>

\* watcher.addFile(file), by fs.read: watchedFiles is shared.
ExistsAddFile(file) ==
    /\ file \notin existence.watchedFiles
    /\ existence' = [existence EXCEPT !.watchedFiles = @ \cup {file}]
    /\ existsLast' = NoDelivery
    /\ UNCHANGED <<program, history, writeUnit, waitUnit, composeUnit, findUnit, regUnit>>

\* exists.unwatch(file), by watcher.unwatch, which drops it from
\* watchedFiles first.
ExistsUnwatch(file) ==
    /\ file \in existenceWatched(existence) \cup existence.watchedFiles
    /\ existence' = [ watchedFiles |-> existence.watchedFiles \ {file},
                      existencePaths |-> existence.existencePaths \ {file},
                      fileExistencePaths |->
                          existence.fileExistencePaths \ {file},
                      dirExistencePaths |->
                          existence.dirExistencePaths \ {file} ]
    /\ existsLast' = NoDelivery
    /\ UNCHANGED <<program, history, writeUnit, waitUnit, composeUnit, findUnit, regUnit>>

\* chokidar's 'all' listener of the existence watcher.
ExistsEvent(event, file) ==
    /\ existenceDelivers(existence, file)
    /\ existsLast' = [kind |-> "event", event |-> event, file |-> file,
                      forwarded |-> isRelevantChange(existence, event, file)]
    /\ UNCHANGED <<existence, program, history, writeUnit, waitUnit, composeUnit, findUnit, regUnit>>

InitExists == EngineInit /\ WriteOff /\ ExistsOff /\ ComposeOff /\ FindOff /\ RegOff

NextExists ==
    \/ \E file \in ExistencePaths : ExistsWatch(file)
    \/ \E file \in ExistencePaths : ExistsWatchFile(file)
    \/ \E file \in ExistencePaths : ExistsWatchDirectory(file)
    \/ \E file \in ExistencePaths : ExistsAddFile(file)
    \/ \E file \in ExistencePaths : ExistsUnwatch(file)
    \/ \E event \in Events, file \in ExistencePaths : ExistsEvent(event, file)

SpecExists == InitExists /\ [][NextExists]_vars

\* The path is registered in an existence set that is concerned with the
\* event.
registeredFor(ex, event, file) ==
    \/ file \in ex.existencePaths
    \/ event \in {"add", "unlink"} /\ file \in ex.fileExistencePaths
    \/ event \in {"addDir", "unlinkDir"} /\ file \in ex.dirExistencePaths

\* C24: an event delivered by the existence watcher is forwarded if and
\* only if it is not a 'change', its path is not in watchedFiles and the
\* path is registered in an existence set appropriate to the event; an
\* event on a path registered in no set is never forwarded.
ExistenceRelevance ==
    existsLast.kind = "event" =>
        ( existsLast.forwarded
          <=> /\ existsLast.event # "change"
              /\ existsLast.file \notin existence.watchedFiles
              /\ registeredFor(existence, existsLast.event, existsLast.file) )

\* ========================================================================
\* generator.ts: waitForStart
\* ========================================================================
\* 'start' events emitted so far.
startsEmitted == Cardinality({i \in 1..Len(runs) : runs[i].phase # "pre"})

\* Variant of waitForStart that returns the promise of the deferred the last
\* 'start' resolved.
waitForStartStale(id, timeout, starts) ==
    [deferred |-> id - 1, timeout |-> timeout, state |-> "resolved",
     starts |-> starts]

\* waitForStart(timeout): the promise of the deferred that startEvent holds
\* at the call, raced against a timer if timeout is given.  `starts` records
\* the number of 'start' events emitted before the call.
waitForStart(id, timeout, starts) ==
    [deferred |-> id, timeout |-> timeout, state |-> "pending",
     starts |-> starts]

\* The embedding program calls waitForStart.
WaitForStart(timeout) ==
    /\ Idle \/ InitialBlock
    /\ Len(waits) < MaxWaits
    /\ waits' = Append(waits, waitForStart(startEvent, timeout, startsEmitted))
    /\ last' = NoLast
    /\ UNCHANGED <<startEvent, program, units>>
    /\ UNCHANGED <<owed, logged, observed, blameSeen, openWatchers>>

\* The timer of waitForStart(timeout) fires before the deferred resolves:
\* sleep(timeout).then(() => { throw new Error('Timed out') }).
WaitTimeout(k) ==
    /\ Idle
    /\ waits[k].timeout
    /\ waits[k].state = "pending"
    /\ waits' = [waits EXCEPT ![k].state = "rejected"]
    /\ last' = NoLast
    /\ UNCHANGED <<startEvent, program, units>>
    /\ UNCHANGED <<owed, logged, observed, blameSeen, openWatchers>>

\* The body of the engine the program waits on: it reads "b".
WaitScripts == { << Call("read", "b", FALSE, "") >> }

NextWait ==
    \/ \E script \in WaitScripts : Start(script)
    \/ RerunContinuation
    \/ UserContinuation
    \/ \E i \in 1..MaxRuns : i <= Len(runs) /\ BodyResolve(i)
    \/ \E i \in 1..MaxRuns, error \in Thrown :
          i <= Len(runs) /\ BodyReject(i, error)
    \/ \E i \in 1..MaxRuns : i <= Len(runs) /\ Finish(i)
    \/ \E e \in Events, f \in Files : FsEvent(e, f)
    \/ CallRerun
    \/ AttachThen
    \/ Destroy
    \/ \E timeout \in BOOLEAN : WaitForStart(timeout)
    \/ \E k \in 1..MaxWaits : k <= Len(waits) /\ WaitTimeout(k)

SpecWait == Init /\ [][NextWait]_vars

\* A timer of waitForStart rejects a promise in this step.
WaitTimeoutStep ==
    \E k \in 1..Len(waits) :
        /\ Len(waits') = Len(waits)
        /\ waits[k].state = "pending"
        /\ waits'[k].state = "rejected"

\* C25: a promise returned by waitForStart is resolved only when a 'start'
\* was emitted after the call, and is settled once one was; it is rejected
\* only if a timeout was given, and the step that rejects it changes nothing
\* of the engine (status, continuations, queue, registry, change log).
WaitForStartResolves ==
    /\ [](\A k \in 1..Len(waits) :
            /\ waits[k].state = "resolved" => startsEmitted > waits[k].starts
            /\ waits[k].state = "pending" => startsEmitted = waits[k].starts
            /\ waits[k].state = "rejected" => waits[k].timeout)
    /\ [][WaitTimeoutStep => UNCHANGED <<program, startEvent>>]_vars

\* A run starts after a promise of waitForStart timed out, and resolves a
\* later promise.
WaitForStartResolvesWitness ==
    /\ last.kind = "start"
    /\ Len(waits) = 2
    /\ waits[1].state = "rejected"
    /\ waits[2].state = "resolved"
    /\ waits[2].starts > 0

\* ========================================================================
\* compose.ts: compose(A, B), two engines on one event emitter
\* ========================================================================
\* The generators given to compose, in order.  Each child is an engine as
\* above, reduced to what the composed engine and the shared emitter touch:
\* its status, the position of its run, the continuations on its promise,
\* its token, the keys of its change log and its startEvent.
Generators == <<"A", "B">>

\* The files each child's body reads (its watchedFiles).
Deps(g) == IF g = "A" THEN {"a"} ELSE {"b"}

\* The child created by generator({...options, events}).
Runner(g) ==
    [ name |-> g, status |-> Pending, run |-> "pre", conts |-> 0,
      aborted |-> FALSE, changes |-> {}, result |-> "none",
      starts |-> 0, startEvent |-> 1, waiter |-> "none", deferred |-> 0,
      waitStarts |-> 0, reruns |-> 0, destroys |-> 0 ]

\* Variant of the status getter: Pending takes precedence over Running.
composedStatusPendingFirst(rs) ==
    IF \E i \in 1..Len(rs) : rs[i].status = Pending THEN Pending
    ELSE IF \E i \in 1..Len(rs) : rs[i].status = Running THEN Running
    ELSE Finished

\* get status() of the composed engine.
composedStatus(rs) ==
    IF \E i \in 1..Len(rs) : rs[i].status = Running THEN Running
    ELSE IF \E i \in 1..Len(rs) : rs[i].status = Pending THEN Pending
    ELSE Finished

\* The 'start' listener of a child: it is on the shared emitter, so it hears
\* the 'start' of every child.
runnerHearsStart(r) ==
    [r EXCEPT !.startEvent = @ + 1,
              !.waiter = IF @ = "pending" /\ r.deferred = r.startEvent
                         THEN "resolved" ELSE @]

\* The 'watch' listener of a child, on the shared emitter.
runnerHearsWatch(r, event, file) ==
    IF event = "change" /\ file \notin Deps(r.name) THEN r
    ELSE IF r.status # Pending
    THEN [r EXCEPT !.changes = @ \cup {file},
                   !.conts = @ + 1,
                   !.aborted = @ \/ r.status = Running,
                   !.status = Pending]
    ELSE [r EXCEPT !.changes = @ \cup {file}]

\* The rerun closure of a child.
runnerReset(r) ==
    [r EXCEPT !.changes = {}, !.aborted = FALSE, !.run = "pre",
              !.conts = 0, !.result = "none"]

\* rerun() of a child.
runnerRerun(r) ==
    LET c == [r EXCEPT !.reruns = @ + 1]
    IN  IF r.status = Finished THEN runnerReset(c)
        ELSE IF r.status = Pending THEN c
        ELSE [c EXCEPT !.aborted = TRUE, !.conts = @ + 1]

\* destroy() of a child.
runnerDestroy(r) == [r EXCEPT !.aborted = TRUE, !.destroys = @ + 1]

\* All 'start' events emitted so far.
composedStarts ==
    IF runners = <<>> THEN 0
    ELSE runners[1].startEvent - 1

\* A child resumes from the first await of run(): status Running and
\* 'start' on the shared emitter.
RunnerStart(i) ==
    /\ runners[i].run = "pre"
    /\ composedStarts < MaxStarts
    /\ runners' = [j \in 1..Len(runners) |->
                      runnerHearsStart(
                         IF j = i
                         THEN [runners[j] EXCEPT !.status = Running,
                                                 !.run = "body",
                                                 !.starts = @ + 1]
                         ELSE runners[j])]
    /\ composeLast' = [op |-> "start", by |-> i, pre |-> runners]
    /\ UNCHANGED <<program, history, writeUnit, existsUnit, waitUnit, findUnit, regUnit>>

\* The body of a child settles, fulfilled (ok) or rejected: the finally
\* block of run() sets Finished, then the continuations on the promise call
\* the rerun closure.
RunnerSettle(i, ok) ==
    /\ runners[i].run = "body"
    /\ LET r == [runners[i] EXCEPT
                    !.status = Finished, !.run = "settled",
                    !.result = IF ok THEN "result" \o runners[i].name
                               ELSE "rejected"]
       IN  runners' = [runners EXCEPT
                          ![i] = IF r.conts > 0 THEN runnerReset(r) ELSE r]
    /\ composeLast' = [op |-> "settle", by |-> i, pre |-> runners]
    /\ UNCHANGED <<program, history, writeUnit, existsUnit, waitUnit, findUnit, regUnit>>

\* A continuation attached to a promise that had already settled runs in
\* its own microtask.
RunnerContinue(i) ==
    /\ runners[i].run = "settled"
    /\ runners[i].conts > 0
    /\ runners' = [runners EXCEPT ![i] = runnerReset(runners[i])]
    /\ composeLast' = [op |-> "continue", by |-> i, pre |-> runners]
    /\ UNCHANGED <<program, history, writeUnit, existsUnit, waitUnit, findUnit, regUnit>>

\* The watcher of child i, whose body has read its files, emits 'watch' for
\* one of them: every listener on the shared emitter is called.
RunnerWatch(i, event) ==
    /\ runners[i].starts > 0
    /\ \A j \in 1..Len(runners) : runners[j].conts = 0
    /\ \A j \in 1..Len(runners) : runners[j].destroys = 0
    /\ \E file \in Deps(runners[i].name) :
          /\ runners' = [j \in 1..Len(runners) |->
                            runnerHearsWatch(runners[j], event, file)]
          /\ composeLast' = [op |-> "watch", by |-> i, event |-> event,
                             file |-> file, pre |-> runners]
    /\ UNCHANGED <<program, history, writeUnit, existsUnit, waitUnit, findUnit, regUnit>>

\* rerun() of the composed engine, called while no child has a continuation
\* or a run waiting behind the status Finished.
ComposedRerun ==
    /\ \A j \in 1..Len(runners) :
          /\ runners[j].conts = 0
          /\ runners[j].reruns < MaxCalls
          /\ runners[j].status = Finished => runners[j].run = "settled"
    /\ runners' = [j \in 1..Len(runners) |-> runnerRerun(runners[j])]
    /\ composeLast' = [op |-> "rerun", pre |-> runners]
    /\ UNCHANGED <<program, history, writeUnit, existsUnit, waitUnit, findUnit, regUnit>>

\* destroy() of the composed engine.
ComposedDestroy ==
    /\ \A j \in 1..Len(runners) : runners[j].destroys < MaxCalls
    /\ runners' = [j \in 1..Len(runners) |-> runnerDestroy(runners[j])]
    /\ composeLast' = [op |-> "destroy", pre |-> runners]
    /\ UNCHANGED <<program, history, writeUnit, existsUnit, waitUnit, findUnit, regUnit>>

\* The program reads the status of the composed engine.
ComposedStatus ==
    /\ composeLast' = [op |-> "status", pre |-> runners,
                       value |-> composedStatus(runners)]
    /\ UNCHANGED <<runners, program, history, writeUnit, existsUnit,
                   waitUnit, findUnit, regUnit>>

\* The outcome of Promise.all over promises that have settled.
promiseAll(results) ==
    IF \E j \in 1..Len(results) : results[j] = "rejected"
    THEN [fulfilled |-> FALSE, value |-> <<>>]
    ELSE [fulfilled |-> TRUE, value |-> results]

\* then(f, g) of the composed engine, called once every child's promise has
\* settled: Promise.all(runners).then(f, g).
ComposedThen ==
    /\ \A j \in 1..Len(runners) : runners[j].result # "none"
    /\ composeLast' = [op |-> "then", pre |-> runners,
                       all |-> promiseAll([j \in 1..Len(runners) |->
                                              runners[j].result])]
    /\ UNCHANGED <<runners, program, history, writeUnit, existsUnit,
                   waitUnit, findUnit, regUnit>>

\* The program calls waitForStart() of child i.
RunnerWaitForStart(i) ==
    /\ runners[i].waiter = "none"
    /\ runners' = [runners EXCEPT
                      ![i].waiter = "pending",
                      ![i].deferred = runners[i].startEvent,
                      ![i].waitStarts = runners[i].starts]
    /\ composeLast' = [op |-> "waitForStart", by |-> i, pre |-> runners]
    /\ UNCHANGED <<program, history, writeUnit, existsUnit, waitUnit, findUnit, regUnit>>

InitCompose ==
    /\ EngineInit /\ WriteOff /\ ExistsOff /\ FindOff /\ RegOff
    /\ runners = [i \in 1..Len(Generators) |-> Runner(Generators[i])]
    /\ composeLast = NoStep

NextCompose ==
    \/ \E i \in 1..Len(Generators) : RunnerStart(i)
    \/ \E i \in 1..Len(Generators), ok \in BOOLEAN : RunnerSettle(i, ok)
    \/ \E i \in 1..Len(Generators) : RunnerContinue(i)
    \/ \E i \in 1..Len(Generators), event \in {"add", "change"} :
          RunnerWatch(i, event)
    \/ \E i \in 1..Len(Generators) : RunnerWaitForStart(i)
    \/ ComposedRerun
    \/ ComposedDestroy
    \/ ComposedStatus
    \/ ComposedThen

SpecCompose == InitCompose /\ [][NextCompose]_vars

\* C26: the status of the composed engine is Running if a child is Running,
\* else Pending if a child is Pending, else Finished; rerun() and destroy()
\* of the composed engine call rerun() and destroy() of every child exactly
\* once; then resolves with the children's results in the order of the
\* generators.
ComposedFansOut ==
    LET n == Len(Generators)
        pre == composeLast.pre
    IN  /\ composeLast.op = "status" =>
              /\ composeLast.value = Running <=>
                    \E j \in 1..n : pre[j].status = Running
              /\ composeLast.value = Pending <=>
                    /\ \A j \in 1..n : pre[j].status # Running
                    /\ \E j \in 1..n : pre[j].status = Pending
              /\ composeLast.value = Finished <=>
                    \A j \in 1..n : pre[j].status = Finished
        /\ composeLast.op = "rerun" =>
              \A j \in 1..n :
                 /\ runners[j].reruns = pre[j].reruns + 1
                 /\ runners[j].destroys = pre[j].destroys
        /\ composeLast.op = "destroy" =>
              \A j \in 1..n :
                 /\ runners[j].destroys = pre[j].destroys + 1
                 /\ runners[j].reruns = pre[j].reruns
        /\ (composeLast.op = "then" /\ composeLast.all.fulfilled) =>
              /\ Len(composeLast.all.value) = n
              /\ \A j \in 1..n :
                    composeLast.all.value[j] = "result" \o Generators[j]

\* The composed status is read with one child Running and one Pending, the
\* composed engine has been rerun and destroyed, and then has resolved.
ComposedFansOutWitness ==
    /\ composeLast.op = "status"
    /\ composeLast.value = Running
    /\ \E j \in 1..Len(Generators) : composeLast.pre[j].status = Pending
    /\ \A j \in 1..Len(Generators) :
          runners[j].reruns > 0 /\ runners[j].destroys > 0

\* C27: a 'watch' event of one child for a file another child does not
\* depend on leaves that child's change log, token, status and run alone,
\* and a child's waitForStart() resolves only on a 'start' of that child.
ChildrenIsolated ==
    /\ composeLast.op = "watch" =>
          \A j \in 1..Len(Generators) :
             (j # composeLast.by
                 /\ composeLast.file \notin Deps(Generators[j])) =>
                runners[j] = composeLast.pre[j]
    /\ \A j \in 1..Len(Generators) :
          runners[j].waiter = "resolved" =>
             runners[j].starts > runners[j].waitStarts

\* ========================================================================
\* context.ts: fs.findUp(source, {cwd, stop})
\* ========================================================================
\* Directories are sequences of names below the filesystem root <<>>; the
\* generator's root is /r, /o lies outside of it.
FindRoot == <<"r">>

Dirs == { <<>>, <<"r">>, <<"r", "a">>, <<"r", "a", "b">>, <<"o">> }

\* The names a directory can hold: f1 and f2 match the source glob, g the
\* stop glob, x and the names of directories neither.
sourceMatch(name) == name \in {"f1", "f2"}

stopMatch(name) == name = "g"

\* Directory listings the tree is built from, in the order of readdirSync.
Listings == { <<>>, <<"f1">>, <<"g">>, <<"g", "f1">>, <<"f2", "f1">> }

\* options.stop: absent, an absolute path, a glob, or a function (true at
\* the directories of `at`).
StopOptions ==
    { [kind |-> "none", at |-> {}],
      [kind |-> "path", at |-> {<<"r", "a">>}],
      [kind |-> "path", at |-> {<<"o">>}],
      [kind |-> "glob", at |-> {}],
      [kind |-> "fn", at |-> {}],
      [kind |-> "fn", at |-> {<<"r", "a">>}] }

\* path.dirname.
parentDir(dir) == IF dir = <<>> THEN dir ELSE SubSeq(dir, 1, Len(dir) - 1)

\* dir is d or an ancestor of d.
isPrefix(dir, d) == Len(dir) <= Len(d) /\ SubSeq(d, 1, Len(dir)) = dir

\* statSync(dir): the lowest `missing` directories of cwd do not exist.
findExists(fs, dir) ==
    ~\E p \in Dirs :
        /\ isPrefix(p, dir)
        /\ isPrefix(p, fs.cwd)
        /\ Len(fs.cwd) - Len(p) < fs.missing

\* readdirSync(dir): the files, then the directories.
readdir(fs, dir) ==
    LET subdirs == {d \in Dirs : d # <<>> /\ parentDir(d) = dir
                                  /\ findExists(fs, d)}
        names(ds) == {d[Len(d)] : d \in ds}
        RECURSIVE listed(_)
        listed(ns) == IF ns = {} THEN <<>>
                      ELSE LET n == CHOOSE m \in ns : TRUE
                           IN  <<n>> \o listed(ns \ {n})
    IN  fs.files[dir] \o listed(names(subdirs))

\* Variant: the stop globs are left out.
watchOptionsGlobSource(stop) == {"source"}

\* The glob findUp hands to watchReaddir: the source, and the stop globs
\* when options.stop is a glob.
watchOptionsGlob(stop) ==
    IF stop.kind = "glob" THEN {"source", "stop"} ELSE {"source"}

\* stop(dir), for the stop function findUp has chosen.
findStops(fs, dir, children) ==
    CASE fs.stop.kind = "fn"   -> dir \in fs.stop.at
      [] fs.stop.kind = "path" -> dir \in fs.stop.at
      [] fs.stop.kind = "glob" -> \E i \in 1..Len(children) :
                                     stopMatch(children[i])
      [] OTHER ->
           IF fs.cwd = FindRoot THEN TRUE
           ELSE IF isPrefix(FindRoot, fs.cwd) THEN dir = FindRoot
           ELSE FALSE

\* The while loop of findUp, entered with `dir` and `dirExists`; acc is
\* what the loop has done so far.  `children` is unassigned until the first
\* directory that exists has been read, and a glob stop reads it.
RECURSIVE findUpLoop(_, _, _, _)
findUpLoop(fs, dir, dirExists, acc) ==
    LET here == dirExists \/ findExists(fs, dir)
        children == IF here THEN readdir(fs, dir) ELSE <<>>
        hits == {i \in 1..Len(children) : sourceMatch(children[i])}
        next ==
            [ visited |-> Append(acc.visited, dir),
              searched |-> IF here THEN Append(acc.searched, dir)
                           ELSE acc.searched,
              patterns |->
                  IF here
                  THEN acc.patterns \cup
                          {[dir |-> dir, glob |-> watchOptionsGlob(fs.stop)]}
                  ELSE acc.patterns,
              existence |-> IF here THEN acc.existence
                            ELSE acc.existence \cup {dir} ]
        done(outcome, d, name) ==
            [ outcome |-> outcome, dir |-> d, name |-> name,
              visited |-> next.visited, searched |-> next.searched,
              patterns |-> next.patterns, existence |-> next.existence ]
    IN  IF here /\ hits # {}
        THEN done("found", dir,
                  children[CHOOSE i \in hits : \A j \in hits : i <= j])
        ELSE IF ~here /\ fs.stop.kind = "glob"
        THEN done("TypeError", <<>>, "")
        ELSE IF findStops(fs, dir, children) \/ dir = <<>>
        THEN done("null", <<>>, "")
        ELSE findUpLoop(fs, parentDir(dir), here, next)

\* fs.findUp(source, options).
findUp(fs) ==
    findUpLoop(fs, fs.cwd, FALSE,
               [visited |-> <<>>, searched |-> <<>>, patterns |-> {},
                existence |-> {}])

\* The body is running and is about to call fs.findUp.
NoFind ==
    [ op |-> "none", status |-> Running, conts |-> 0, adds |-> 0,
      outcome |-> "none", dir |-> <<>>, name |-> "", visited |-> <<>>,
      searched |-> <<>>, patterns |-> {}, existence |-> {},
      file |-> <<>>, emitted |-> FALSE ]

\* The body calls fs.findUp; a TypeError rejects the run.
FindUp ==
    /\ findState.op = "none"
    /\ LET r == findUp(findFs)
       IN  findState' =
              [findState EXCEPT
                  !.op = "findUp",
                  !.status = IF r.outcome = "TypeError" THEN Finished ELSE @,
                  !.outcome = r.outcome, !.dir = r.dir, !.name = r.name,
                  !.visited = r.visited, !.searched = r.searched,
                  !.patterns = r.patterns, !.existence = r.existence]
    /\ UNCHANGED <<findFs, program, history, writeUnit, existsUnit, waitUnit,
                   composeUnit, regUnit>>

\* The body returns.
FindSettle ==
    /\ findState.op # "none"
    /\ findState.status = Running
    /\ findState' = [findState EXCEPT !.op = "settle", !.status = Finished]
    /\ UNCHANGED <<findFs, program, history, writeUnit, existsUnit, waitUnit,
                   composeUnit, regUnit>>

\* The children watcher reports the children of the directories that
\* watchReaddir has registered.
findDelivers(patterns, dir) == \E p \in patterns : p.dir = dir

\* A file is created in a directory that exists.  If chokidar reports it,
\* handleChange emits 'watch' and the engine's listener logs the change
\* and, unless a run is scheduled already, schedules a rerun.
FindAddFile(dir, name) ==
    /\ findState.op # "none"
    /\ findState.outcome # "TypeError"
    /\ findState.adds < MaxAdds
    /\ findExists(findFs, dir)
    /\ ~InSeq(name, findFs.files[dir])
    /\ findFs' = [findFs EXCEPT !.files[dir] = Append(@, name)]
    /\ LET emitted == findDelivers(findState.patterns, dir)
           reruns == emitted /\ findState.status # Pending
       IN  findState' =
              [findState EXCEPT
                  !.op = "add", !.adds = @ + 1,
                  !.file = Append(dir, name), !.emitted = emitted,
                  !.status = IF reruns THEN Pending ELSE @,
                  !.conts = IF reruns THEN @ + 1 ELSE @]
    /\ UNCHANGED <<program, history, writeUnit, existsUnit, waitUnit,
                   composeUnit, regUnit>>

InitFind ==
    /\ EngineInit /\ WriteOff /\ ExistsOff /\ ComposeOff /\ RegOff
    /\ findFs \in [ files : [Dirs -> Listings], cwd : Dirs,
                     stop : StopOptions, missing : 0..MaxMissing ]
    /\ findFs.files[<<>>] = <<>>
    /\ findFs.files[<<"o">>] = <<>>
    /\ findFs.missing <= Len(findFs.cwd)
    /\ \A d \in Dirs : ~findExists(findFs, d) => findFs.files[d] = <<>>
    /\ findState = NoFind

NextFind ==
    \/ FindUp
    \/ FindSettle
    \/ \E dir \in Dirs, name \in {"f1", "g", "x"} : FindAddFile(dir, name)

SpecFind == InitFind /\ [][NextFind]_vars

\* The directory has a child that matches the source glob.
dirHasMatch(fs, dir) ==
    /\ findExists(fs, dir)
    /\ \E i \in 1..Len(readdir(fs, dir)) : sourceMatch(readdir(fs, dir)[i])

\* options.stop holds at the directory, as the documentation states it: the
\* root by default, the absolute path, the directory where the function
\* returns true, the directory that holds a path matching the stop glob.
stopHolds(fs, dir) ==
    CASE fs.stop.kind = "none" -> dir = FindRoot
      [] fs.stop.kind = "glob" ->
           /\ findExists(fs, dir)
           /\ \E i \in 1..Len(readdir(fs, dir)) :
                 stopMatch(readdir(fs, dir)[i])
      [] OTHER -> dir \in fs.stop.at

\* What C28 says of a call that has returned.
findUpReturns(fs, r) ==
    LET v == r.visited
        n == Len(v)
    IN  /\ n >= 1
        /\ v[1] = fs.cwd
        /\ \A k \in 2..n : v[k] = parentDir(v[k - 1]) /\ v[k] # v[k - 1]
        /\ \A k \in 1..(n - 1) : ~dirHasMatch(fs, v[k]) /\ ~stopHolds(fs, v[k])
        /\ r.outcome = "found" =>
              /\ r.dir = v[n]
              /\ dirHasMatch(fs, v[n])
              /\ \E i \in 1..Len(readdir(fs, v[n])) :
                    /\ readdir(fs, v[n])[i] = r.name
                    /\ sourceMatch(r.name)
                    /\ \A j \in 1..(i - 1) :
                          ~sourceMatch(readdir(fs, v[n])[j])
        /\ r.outcome = "null" =>
              /\ ~dirHasMatch(fs, v[n])
              /\ stopHolds(fs, v[n]) \/ v[n] = <<>>
        /\ (fs.stop.kind = "none" /\ isPrefix(FindRoot, fs.cwd)) =>
              /\ \A k \in 1..n : isPrefix(FindRoot, v[k])
              /\ r.outcome = "null" => v[n] = FindRoot

\* C28: fs.findUp returns for every cwd and stop option; it visits cwd and
\* then each ancestor once, upward; it returns the first matching child of
\* the first directory that has one, else null after the directory where
\* stop holds or the filesystem root; by default it does not pass the root.
FindUpTerminates ==
    findState.op = "findUp" =>
       /\ findState.outcome \in {"found", "null"}
       /\ findUpReturns(findFs, findState)

\* A call with a glob stop has returned a match, and a file that matches
\* the source glob has been created since.
findUpThenAdd ==
    /\ findState.op = "add"
    /\ findFs.stop.kind = "glob"
    /\ findState.outcome = "found"
    /\ sourceMatch(findState.file[Len(findState.file)])

\* For every directory the call visited, a pattern with the source and the
\* stop globs is registered.
findUpRegisters ==
    (findState.op # "none" /\ findFs.stop.kind = "glob"
        /\ findState.outcome # "TypeError") =>
       \A k \in 1..Len(findState.visited) :
          [dir |-> findState.visited[k], glob |-> {"source", "stop"}]
             \in findState.patterns

\* C29 as stated: after findUp with a glob stop has returned a match found
\* in d, a matching file created in an ancestor of d at or below the
\* directory that holds the stop entry causes a rerun; every visited
\* directory has a pattern with the source and the stop globs.
FindUpAncestorAddReruns ==
    /\ findUpRegisters
    /\ LET dir == parentDir(findState.file)
       IN  (/\ findUpThenAdd
            /\ dir # findState.dir
            /\ isPrefix(dir, findState.dir)
            /\ \E s \in Dirs : isPrefix(s, dir) /\ stopHolds(findFs, s)) =>
              findState.emitted /\ findState.status = Pending

\* C29, amended: the matching file is created in a directory the call
\* visited (cwd up to d); every visited directory has a pattern with the
\* source and the stop globs.
FindUpVisitedAddReruns ==
    /\ findUpRegisters
    /\ (findUpThenAdd
           /\ InSeq(parentDir(findState.file), findState.visited)) =>
          findState.emitted /\ findState.status = Pending

\* A match was found two directories above cwd, the stop entry lies above
\* it, and a matching file is created in cwd.
FindUpVisitedAddRerunsWitness ==
    /\ findUpThenAdd
    /\ Len(findState.visited) = 3
    /\ parentDir(findState.file) = findFs.cwd
    /\ stopHolds(findFs, <<>>) \/ stopHolds(findFs, FindRoot)
    /\ findState.status = Pending

\* C30: the first run starts asynchronously.  Until the first 'start' is
\* emitted the status is Pending, no body has been invoked and the start of
\* run 1 is the next microtask; that microtask emits 'start' and sets
\* Running; what was attached to 'start' before it (the promise of a
\* waitForStart() called in the program's synchronous code) hears it.
FirstRunStartsAsynchronously ==
    /\ startEvent = 1 =>
          /\ status = Pending
          /\ \A i \in 1..Len(runs) : runs[i].phase = "pre"
          /\ microtasks # <<>>
          /\ Head(microtasks) = Task("start", 1)
          /\ \A k \in 1..Len(waits) : waits[k].state = "pending"
    /\ (last.kind = "start" /\ last.run = 1) =>
          /\ status = Running
          /\ InSeq(Ev("start", ""), last.emits)
          /\ startEvent = 2
    /\ startEvent > 1 =>
          \A k \in 1..Len(waits) :
             waits[k].starts = 0 => waits[k].state = "resolved"

\* The first 'start' has just been emitted and has resolved a promise of
\* waitForStart() that the program obtained before the first microtask.
FirstRunStartsAsynchronouslyWitness ==
    /\ last.kind = "start"
    /\ last.run = 1
    /\ status = Running
    /\ Len(waits) > 0
    /\ waits[1].starts = 0
    /\ waits[1].state = "resolved"

\* Runs whose body has been invoked and whose promise has not settled.
InProgress == {i \in 1..Len(runs) : runs[i].phase \in {"body", "ready"}}

\* C31: status agrees with the schedule.  A run that is scheduled and has
\* not emitted 'start' means Pending (also after the interrupted body has
\* settled); Running means a body is in progress and no rerun is requested
\* for it, and the converse; Finished means no body in progress and no run
\* scheduled.
StatusConsistent ==
    /\ Waiting > 0 => status = Pending
    /\ status = Running <=> (InProgress # {} /\ Waiting = 0)
    /\ status = Finished => (InProgress = {} /\ Waiting = 0)

\* C32: after a hard reset the 'watch' listener decides with the recreated
\* registry.  A 'change' of a file the registry watches now is logged and
\* schedules a rerun, and an event is logged under the causes the registry
\* holds now (under the file itself if it holds none).
ListenerFollowsRegistry ==
    (last.kind = "event" /\ last.emitted /\ generation > 0) =>
       LET now == Range(blamedOrSelf(captured(watcher), last.file))
           fresh == LogKeys(changes) \ LogKeys(last.preChanges)
       IN  /\ (last.event = "change"
                  /\ last.file \in watcher.watchedFiles) =>
                 /\ last.isLogged
                 /\ now \subseteq LogKeys(changes)
                 /\ status = Pending
           /\ fresh \subseteq now

\* C33: every 'watch' event the registry emits is about a path of interest:
\* a watched file, or the base or a match of a registered matcher.  (The
\* fallback paths are directories and the engine here registers no
\* existence path, so neither covers one of Files.)
EmittedPathOfInterest ==
    (last.kind = "event" /\ last.emitted) =>
       \/ last.file \in watcher.watchedFiles
       \/ scannedMatch(watcher, last.file)

\* The matchers that apply to file.
applicable(reg, file) ==
    {i \in 1..Len(reg.matchers) : hasMatch(file, reg.matchers[i])}

MatchersReleased ==
    /\ \A i, j \in 1..Len(watcher.matchers) :
          watcher.matchers[i] = watcher.matchers[j] => i = j
    /\ (last.kind = "start" /\ last.run > 1 /\ generation = 0
           /\ ~last.scanned) =>
          \A i \in 1..Len(watcher.matchers) : watcher.matchers[i].pat # Star

\* ========================================================================
\* watcher.ts: the watch registry on its own
\* ========================================================================
\* The registry of createJumpgenWatcher with what the engine above leaves
\* out: the existence sets, missingPaths and fallbackPaths, and the paths
\* that exist on disk.
NoCall == [op |-> "none", file |-> "", pre |-> NoStep, plain |-> {},
           carried |-> {}, given |-> [f \in Files |-> {}]]

\* The patterns added: "*" and "[ab]" in the root, and two literal paths.
RegPatterns == {Star, ListGlob, Literal("a"), Literal("b")}

\* createJumpgenWatcher(generatorName, events, root); `present` are the
\* paths that exist.
newRegistry(present) ==
    [ reg |-> createJumpgenWatcher,
      ex |-> createExistenceWatcher,
      missingPaths |-> {},
      fallbackPaths |-> [d \in {Root} |-> 0],
      present |-> present,
      calls |-> 0 ]

\* add(pattern, {ignoreEmptyNewFiles}): the pattern carries the number of
\* its registration.
RegAdd(pat, ignoreEmptyNewFiles) ==
    /\ Len(registry.reg.matchers) < MaxPatterns
    /\ LET numbered == [kind |-> pat.kind, base |-> pat.base,
                        id |-> Len(registry.reg.matchers) + 1]
       IN  registry' = [registry EXCEPT
                           !.reg = add(@, numbered, ignoreEmptyNewFiles,
                                       FALSE)]
    /\ regLast' = [regLast EXCEPT !.op = "add", !.file = pat.base,
                                  !.pre = registry]
    /\ UNCHANGED <<program, history, writeUnit, existsUnit, waitUnit,
                   composeUnit, findUnit>>

InitMatchers ==
    /\ EngineInit /\ WriteOff /\ ExistsOff /\ ComposeOff /\ FindOff
    /\ registry = newRegistry({})
    /\ regLast = NoCall

NextMatchers ==
    \E pat \in RegPatterns, ignoreEmptyNewFiles \in BOOLEAN :
        RegAdd(pat, ignoreEmptyNewFiles)

SpecMatchers == InitMatchers /\ [][NextMatchers]_vars

\* C36: after any sequence of add calls the matchers are in order of
\* non-increasing depth, and matchers of equal depth are in the order of
\* their registration.
MatchersOrdered ==
    LET ms == registry.reg.matchers
    IN  \A i, j \in 1..Len(ms) :
           i < j => /\ ms[i].depth >= ms[j].depth
                    /\ ms[i].depth = ms[j].depth => ms[i].pat.id < ms[j].pat.id

\* Four patterns were added, alternating between the two depths.
MatchersOrderedWitness ==
    LET ms == registry.reg.matchers
    IN  /\ Len(ms) = 4
        /\ ms[1].depth > ms[4].depth
        /\ ms[1].pat.id = 2
        /\ ms[2].pat.id = 4
        /\ ms[3].pat.id = 1

\* ------------------------------------------------------------------------
\* addFile, unwatch and the existence sets
\* ------------------------------------------------------------------------
\* The first part of watch(file): a path that does not exist is noted in
\* missingPaths and counted on its parent directory, which is watched the
\* same way.
RECURSIVE watchMissing(_, _)
watchMissing(r, file) ==
    IF file \in r.present \/ file = Root THEN r
    ELSE LET fallbackPath == dirname(file)
             r1 == [r EXCEPT !.missingPaths = @ \cup {file}]
         IN  IF fallbackPath # file
             THEN watchMissing(
                      [r1 EXCEPT !.fallbackPaths[fallbackPath] = @ + 1],
                      fallbackPath)
             ELSE r1

\* The argument lists of addFile: no cause, an empty list of causes, or
\* one cause.
CauseLists == {<<>>} \cup {<<c>> : c \in Files}

\* watcher.addFile(file, {cause, critical}) by the context.
RegAddFile(file, hasCause, causeList, critical) ==
    /\ registry.calls < MaxRegCalls
    /\ hasCause \/ causeList = <<>>
    /\ registry' = [watchMissing(registry, file) EXCEPT
                       !.reg = addFile(@, file, hasCause, causeList,
                                       critical),
                       !.ex.watchedFiles = @ \cup {file},
                       !.calls = @ + 1]
    /\ regLast' = [ op |-> "addFile", file |-> file, pre |-> registry,
                    plain |-> IF hasCause THEN regLast.plain
                              ELSE regLast.plain \cup {file},
                    carried |-> IF hasCause THEN regLast.carried \cup {file}
                                ELSE regLast.carried,
                    given |-> [regLast.given EXCEPT
                                 ![file] = @ \cup Range(causeList)] ]
    /\ UNCHANGED <<program, history, writeUnit, existsUnit, waitUnit,
                   composeUnit, findUnit>>

InitCauses ==
    /\ EngineInit /\ WriteOff /\ ExistsOff /\ ComposeOff /\ FindOff
    /\ registry = newRegistry(Files)
    /\ regLast = NoCall

NextCauses ==
    \E file \in Files, hasCause \in BOOLEAN, causeList \in CauseLists,
       critical \in BOOLEAN :
        RegAddFile(file, hasCause, causeList, critical)

SpecCauses == InitCauses /\ [][NextCauses]_vars

\* The set of causes recorded for a file.
causesOf(reg, file) == Range(reg.blamedFiles[file].causes)

\* C38: whatever the order of the addFile calls for a file, it has an
\* entry in blamedFiles exactly when a call carried a cause; the entry
\* holds the causes given, and the file itself exactly when a call without
\* a cause was made as well.
CausesOrderIndependent ==
    \A f \in Files :
        /\ registry.reg.blamedFiles[f].has <=> f \in regLast.carried
        /\ f \in regLast.carried =>
              causesOf(registry.reg, f) =
                 regLast.given[f] \cup
                    (IF f \in regLast.plain THEN {f} ELSE {})
        /\ f \notin regLast.carried => causesOf(registry.reg, f) = {}

\* A file was added without a cause between two calls that carried
\* different causes.
CausesOrderIndependentWitness ==
    /\ "a" \in regLast.plain
    /\ registry.reg.blamedFiles["a"].causes = <<"b", "a", "c">>

\* The three sets of the existence watcher.
ExistenceSets == {"existencePaths", "fileExistencePaths", "dirExistencePaths"}

\* exists.watch(file), exists.watchFile(file) or exists.watchDirectory(dir),
\* according to `set`.
RegExists(file, set) ==
    /\ registry.calls < MaxRegCalls
    /\ file \notin registry.ex[set]
    /\ registry' = [registry EXCEPT !.ex[set] = @ \cup {file},
                                    !.calls = @ + 1]
    /\ regLast' = [regLast EXCEPT !.op = "exists", !.file = file,
                                  !.pre = registry]
    /\ UNCHANGED <<program, history, writeUnit, existsUnit, waitUnit,
                   composeUnit, findUnit>>

\* The existence watcher's unwatch(file) for each file of `gone`, which
\* unwatch has deleted from the shared watchedFiles.
existsUnwatch(ex, gone) ==
    [ watchedFiles |-> ex.watchedFiles \ gone,
      existencePaths |-> ex.existencePaths \ gone,
      fileExistencePaths |-> ex.fileExistencePaths \ gone,
      dirExistencePaths |-> ex.dirExistencePaths \ gone ]

\* The files unwatch(file) is called for, the recursive calls included:
\* each call deletes the file's entry of blamedFiles, and nothing else
\* deletes an entry.
unwatchCalls(reg, file) ==
    {file} \cup {q \in Files : /\ reg.blamedFiles[q].has
                               /\ ~unwatch(reg, file).blamedFiles[q].has}

\* watcher.unwatch(file)
RegUnwatch(file) ==
    /\ registry.calls < MaxRegCalls
    /\ registry' = [registry EXCEPT
                       !.reg = unwatch(@, file),
                       !.ex = existsUnwatch(@, unwatchCalls(registry.reg,
                                                            file)),
                       !.calls = @ + 1]
    /\ regLast' = [regLast EXCEPT !.op = "unwatch", !.file = file,
                                  !.pre = registry]
    /\ UNCHANGED <<program, history, writeUnit, existsUnit, waitUnit,
                   composeUnit, findUnit>>

InitBlame ==
    /\ EngineInit /\ WriteOff /\ ExistsOff /\ ComposeOff /\ FindOff
    /\ registry = newRegistry(Files)
    /\ regLast = NoCall

NextBlame ==
    \/ \E file \in Files, hasCause \in BOOLEAN, causeList \in CauseLists,
          critical \in BOOLEAN :
           RegAddFile(file, hasCause, causeList, critical)
    \/ \E file \in Files, set \in ExistenceSets : RegExists(file, set)
    \/ \E file \in Files : RegUnwatch(file)

SpecBlame == InitBlame /\ [][NextBlame]_vars

\* C37: every entry of blamedFiles has a cause, every critical file is
\* watched and every file with an entry in blamedFiles is watched.
BlameWellFormed ==
    /\ \A f \in Files :
          registry.reg.blamedFiles[f].has =>
             /\ registry.reg.blamedFiles[f].causes # <<>>
             /\ f \in registry.reg.watchedFiles
    /\ registry.reg.criticalFiles \subseteq registry.reg.watchedFiles

\* The existence paths registered, of any kind.
regExistence(r) ==
    r.ex.existencePaths \cup r.ex.fileExistencePaths
       \cup r.ex.dirExistencePaths

\* C39: when unwatch(p) returns, p is not watched, not critical, has no
\* entry in blamedFiles, is in no existence set and in no cause set; the
\* files unwatched are p and those whose last cause went with it, and
\* every other file is watched as before.
UnwatchCascades ==
    regLast.op = "unwatch" =>
       LET pre == regLast.pre.reg
           reg == registry.reg
           gone == cascade(pre, {regLast.file})
       IN  /\ regLast.file \notin reg.watchedFiles \cup reg.criticalFiles
           /\ ~reg.blamedFiles[regLast.file].has
           /\ regLast.file \notin regExistence(registry)
           /\ \A q \in Files : regLast.file \notin causesOf(reg, q)
           /\ reg.watchedFiles = pre.watchedFiles \ gone
           /\ \A q \in Files \ gone :
                 /\ reg.blamedFiles[q].has = pre.blamedFiles[q].has
                 /\ causesOf(reg, q) = causesOf(pre, q) \ gone
           /\ \A q \in gone : ~reg.blamedFiles[q].has
           /\ regExistence(registry) = regExistence(regLast.pre) \ gone

\* unwatch of a file on a cycle of blame: "a" and "b" were watched because
\* of each other, and "a" was checked for existence.
UnwatchCascadesWitness ==
    /\ regLast.op = "unwatch"
    /\ regLast.file = "a"
    /\ regLast.pre.reg.blamedFiles["a"].causes = <<"b">>
    /\ regLast.pre.reg.blamedFiles["b"].causes = <<"a">>
    /\ "a" \in regExistence(regLast.pre)
    /\ registry.reg.watchedFiles = {}

\* ------------------------------------------------------------------------
\* Missing paths and their fallback directories
\* ------------------------------------------------------------------------
\* checkAddedPath(file): a count of 0 stands for no entry in fallbackPaths.
checkAddedPath(r, file) ==
    IF file \in r.missingPaths
    THEN LET parent == dirname(file)
             childCount == r.fallbackPaths[parent]
         IN  [r EXCEPT !.missingPaths = @ \ {file},
                       !.fallbackPaths[parent] =
                           IF childCount > 0 THEN childCount - 1 ELSE @]
    ELSE r

\* The file is created. chokidar reports it when the path was added to the
\* recursive watcher and not unwatched since; handleChange('add', file)
\* then calls checkAddedPath.
RegCreate(file) ==
    /\ file \notin registry.present
    /\ LET r1 == [registry EXCEPT !.present = @ \cup {file}]
       IN  registry' = IF file \in registry.reg.chokidar
                       THEN checkAddedPath(r1, file)
                       ELSE r1
    /\ regLast' = [regLast EXCEPT !.op = "create", !.file = file,
                                  !.pre = registry]
    /\ UNCHANGED <<program, history, writeUnit, existsUnit, waitUnit,
                   composeUnit, findUnit>>

\* The file is removed: handleChange('unlink', file) leaves the registry as
\* it is.
RegUnlink(file) ==
    /\ file \in registry.present
    /\ registry' = [registry EXCEPT !.present = @ \ {file}]
    /\ regLast' = [regLast EXCEPT !.op = "unlink", !.file = file,
                                  !.pre = registry]
    /\ UNCHANGED <<program, history, writeUnit, existsUnit, waitUnit,
                   composeUnit, findUnit>>

InitFallback ==
    /\ EngineInit /\ WriteOff /\ ExistsOff /\ ComposeOff /\ FindOff
    /\ registry = newRegistry({})
    /\ regLast = NoCall

NextFallback ==
    \/ \E file \in Files : RegAddFile(file, FALSE, <<>>, FALSE)
    \/ \E file \in Files : RegUnwatch(file)
    \/ \E file \in Files : RegCreate(file)
    \/ \E file \in Files : RegUnlink(file)

SpecFallback == InitFallback /\ [][NextFallback]_vars

\* C40: the count of a fallback directory is the number of missing paths
\* whose parent it is, and once no path is missing any more no fallback
\* directory is left.
FallbackCountsExact ==
    /\ \A d \in DOMAIN registry.fallbackPaths :
          registry.fallbackPaths[d] =
             Cardinality({f \in registry.missingPaths : dirname(f) = d})
    /\ registry.missingPaths = {} =>
          \A d \in DOMAIN registry.fallbackPaths :
             registry.fallbackPaths[d] = 0

====
